---- MODULE Spec2Model ----
(***************************************************************************)
(* A model of the AQ bytecode virtual machine (the file whose main() loads *)
(* a bytecode image and runs the opcode loop).  The image buffer, the      *)
(* tagged memory that lives inside it, the ULEB-255 operand decoders, the  *)
(* arithmetic kernel and the execution loop are translated function by     *)
(* function.  Integers are the C types of an LP64 little-endian build;     *)
(* floating values are IEEE-754 binary32/binary64 values kept as           *)
(* sign/mantissa/exponent triples.  Where C leaves the behaviour undefined *)
(* (a read outside the buffer, a division by zero, a conversion out of     *)
(* range, a call through a pointer that was never set) the machine enters  *)
(* the state "undefined", which stands for every outcome: no property      *)
(* says anything about it.                                                 *)
(***************************************************************************)
EXTENDS Integers, Sequences, FiniteSets, TLC

(***************************************************************************)
(* Bytes and two's-complement integers                                     *)
(***************************************************************************)

RECURSIVE Pow2(_)
Pow2(n) == IF n = 0 THEN 1 ELSE 2 * Pow2(n - 1)

\* the number of bits of a natural number (0 for 0)
RECURSIVE BitLen(_)
BitLen(n) == IF n = 0 THEN 0 ELSE 1 + BitLen(n \div 2)

\* C conversion of an integer to int8_t (two's complement, as gcc and clang do)
ToInt8(v) == (((v % 256) + 128) % 256) - 128

\* the n little-endian bytes of the two's-complement integer v
RECURSIVE IntBytes(_, _)
IntBytes(v, n) ==
    IF n = 0 THEN << >>
    ELSE << v % 256 >> \o IntBytes((v - (v % 256)) \div 256, n - 1)

\* the signed integer a little-endian byte sequence holds
RECURSIVE BytesInt(_)
BytesInt(bs) ==
    IF Len(bs) = 1 THEN (IF bs[1] >= 128 THEN bs[1] - 256 ELSE bs[1])
    ELSE BytesInt(Tail(bs)) * 256 + bs[1]

(***************************************************************************)
(* IEEE-754 values.  A finite value is (-1)^s * m * 2^e with m odd (or     *)
(* m = 0, e = 0); the formats differ in precision and exponent range.      *)
(***************************************************************************)

Fin(s, m, e) == [k |-> "fin", s |-> s, m |-> m, e |-> e]
Inf(s) == [k |-> "inf", s |-> s, m |-> 0, e |-> 0]
NaN(s) == [k |-> "nan", s |-> s, m |-> 0, e |-> 0]

\* float: 24-bit significand, least exponent -149, greatest 127
Binary32 == [p |-> 24, lo |-> -149, hi |-> 127, bias |-> 127, fbits |-> 23]
\* double: 53-bit significand, least exponent -1074, greatest 1023
Binary64 == [p |-> 53, lo |-> -1074, hi |-> 1023, bias |-> 1023, fbits |-> 52]

RECURSIVE Norm(_, _, _)
Norm(s, m, e) ==
    IF m = 0 THEN Fin(s, 0, 0)
    ELSE IF m % 2 = 0 THEN Norm(s, m \div 2, e + 1)
    ELSE Fin(s, m, e)

Max(a, b) == IF a >= b THEN a ELSE b
Min(a, b) == IF a <= b THEN a ELSE b
Abs(v) == IF v < 0 THEN -v ELSE v

\* m * 2^e (m > 0) rounded to nearest, ties to even, in format f: of the L
\* bits of m the last drop are cut, the quotient q going up when the
\* remainder r is beyond the half, or at it with q odd
RoundTo(s, m, e, f) ==
    LET Kept(q2, e2) ==
            IF q2 = 0 THEN Fin(s, 0, 0)
            ELSE IF e2 + BitLen(q2) - 1 > f.hi THEN Inf(s)
            ELSE Norm(s, q2, e2)
        Up(q, r, half) == IF r > half \/ (r = half /\ q % 2 = 1) THEN q + 1 ELSE q
        Cut(L, drop) ==
            IF drop <= 0
            THEN IF e + L - 1 > f.hi THEN Inf(s) ELSE Norm(s, m, e)
            ELSE IF drop > L + 1 THEN Fin(s, 0, 0)
            ELSE Kept(Up(m \div Pow2(drop), m % Pow2(drop), Pow2(drop - 1)), e + drop)
    IN  Cut(BitLen(m), Max(BitLen(m) - f.p, f.lo - e))

\* conversion of a C integer to a floating type
IntToF(v, f) == IF v = 0 THEN Fin(0, 0, 0) ELSE RoundTo(IF v < 0 THEN 1 ELSE 0, Abs(v), 0, f)

\* conversion between floating types
FToF(x, f) == IF x.k = "fin" /\ x.m # 0 THEN RoundTo(x.s, x.m, x.e, f) ELSE x

\* a C rvalue whose evaluation may be undefined behaviour
Ok(v) == [ub |-> FALSE, v |-> v]
Undef == [ub |-> TRUE, v |-> 0]

\* conversion of a floating value to a signed integer type of w bits:
\* truncation toward zero, undefined when the truncated value does not fit
FToInt(x, w) ==
    IF x.k # "fin" THEN Undef
    ELSE IF x.m = 0 THEN Ok(0)
    ELSE IF x.e < 0
         THEN IF -(x.e) > 30 THEN Ok(0)
              ELSE LET t == x.m \div Pow2(-(x.e))
                       v == IF x.s = 1 THEN -t ELSE t
                   IN  IF w = 8 /\ (v < -128 \/ v > 127) THEN Undef ELSE Ok(v)
         ELSE IF x.s = 1 /\ x.m = 1 /\ x.e = w - 1 THEN Ok((-Pow2(w - 2)) * 2)
         ELSE IF x.e + BitLen(x.m) > w - 1 THEN Undef
         ELSE LET t == x.m * Pow2(x.e)
              IN  Ok(IF x.s = 1 THEN -t ELSE t)

FNeg(x) == [x EXCEPT !.s = 1 - x.s]

\* x + y in format f
FAdd(x, y, f) ==
    IF x.k = "nan" THEN x
    ELSE IF y.k = "nan" THEN y
    ELSE IF x.k = "inf" THEN (IF y.k = "inf" /\ y.s # x.s THEN NaN(1) ELSE x)
    ELSE IF y.k = "inf" THEN y
    ELSE IF x.m = 0 /\ y.m = 0 THEN Fin(IF x.s = 1 /\ y.s = 1 THEN 1 ELSE 0, 0, 0)
    ELSE IF x.m = 0 THEN FToF(y, f)
    ELSE IF y.m = 0 THEN FToF(x, f)
    ELSE LET e == Min(x.e, y.e)
             a == (IF x.s = 1 THEN -1 ELSE 1) * x.m * Pow2(x.e - e)
             b == (IF y.s = 1 THEN -1 ELSE 1) * y.m * Pow2(y.e - e)
             t == a + b
         IN  IF t = 0 THEN Fin(0, 0, 0)
             ELSE RoundTo(IF t < 0 THEN 1 ELSE 0, Abs(t), e, f)

FSub(x, y, f) == FAdd(x, IF y.k = "nan" THEN y ELSE FNeg(y), f)

FMul(x, y, f) ==
    LET s == (x.s + y.s) % 2
    IN  IF x.k = "nan" THEN x
        ELSE IF y.k = "nan" THEN y
        ELSE IF x.k = "inf" THEN (IF y.k = "fin" /\ y.m = 0 THEN NaN(1) ELSE Inf(s))
        ELSE IF y.k = "inf" THEN (IF x.m = 0 THEN NaN(1) ELSE Inf(s))
        ELSE IF x.m = 0 \/ y.m = 0 THEN Fin(s, 0, 0)
        ELSE RoundTo(s, x.m * y.m, x.e + y.e, f)

\* x / y in format f; an inexact quotient is computed to p + 2 bits, the last
\* of them sticky, and rounded
FDiv(x, y, f) ==
    LET s == (x.s + y.s) % 2
    IN  IF x.k = "nan" THEN x
        ELSE IF y.k = "nan" THEN y
        ELSE IF x.k = "inf" THEN (IF y.k = "inf" THEN NaN(1) ELSE Inf(s))
        ELSE IF y.k = "inf" THEN Fin(s, 0, 0)
        ELSE IF y.m = 0 THEN (IF x.m = 0 THEN NaN(1) ELSE Inf(s))
        ELSE IF x.m = 0 THEN Fin(s, 0, 0)
        ELSE IF x.m % y.m = 0 THEN RoundTo(s, x.m \div y.m, x.e - y.e, f)
        ELSE LET t == Max(0, f.p + 2 + BitLen(y.m) - BitLen(x.m))
                 n == x.m * Pow2(t)
                 q == n \div y.m
             IN  RoundTo(s, 2 * q + 1, x.e - y.e - t - 1, f)

\* the comparisons of C on floating values (every comparison with a NaN is
\* false, except !=)
FLess(x, y) ==
    IF x.k = "nan" \/ y.k = "nan" THEN FALSE
    ELSE IF x.k = "inf" THEN x.s = 1 /\ ~(y.k = "inf" /\ y.s = 1)
    ELSE IF y.k = "inf" THEN y.s = 0
    ELSE IF x.m = 0 /\ y.m = 0 THEN FALSE
    ELSE LET d == FAdd(x, FNeg(y), Binary64) IN d.m # 0 /\ d.s = 1
FEq(x, y) ==
    IF x.k = "nan" \/ y.k = "nan" THEN FALSE
    ELSE IF x.k = "inf" \/ y.k = "inf" THEN x.k = y.k /\ x.s = y.s
    ELSE (x.m = 0 /\ y.m = 0) \/ (x.m = y.m /\ x.e = y.e /\ x.s = y.s)


(***************************************************************************)
(* The object representation of float and double (little-endian)           *)
(***************************************************************************)

\* byte j of the natural number v * 2^sh (sh may be negative), computed
\* without forming the product
ShiftedByte(v, sh, j) ==
    LET d == sh - 8 * j
    IN  IF d >= 8 THEN 0
        ELSE IF d >= 0 THEN ((v % 256) * Pow2(d)) % 256
        ELSE IF -d > 30 THEN 0
        ELSE (v \div Pow2(-d)) % 256

\* the n bytes of sign, biased exponent field and fraction v * 2^sh
FieldBytes(s, bexp, v, sh, f, n) ==
    LET c == 8 * (n - 1) - f.fbits        \* exponent bits in byte n - 1
    IN  [j \in 1 .. n |->
            IF j = n THEN s * 128 + (bexp \div Pow2(c))
            ELSE IF j = n - 1
            THEN (bexp % Pow2(c)) * Pow2(8 - c) + (ShiftedByte(v, sh, j - 1) % Pow2(8 - c))
            ELSE ShiftedByte(v, sh, j - 1)]

\* the bytes of a floating value x of format f (n = 4 or 8)
FBytes(x, f, n) ==
    LET allones == 2 * f.bias + 1
    IN  IF x.k = "inf" THEN FieldBytes(x.s, allones, 0, 0, f, n)
        ELSE IF x.k = "nan" THEN FieldBytes(x.s, allones, 1, f.fbits - 1, f, n)
        ELSE IF x.m = 0 THEN FieldBytes(x.s, 0, 0, 0, f, n)
        ELSE LET L == BitLen(x.m)
                 top == x.e + L - 1
             IN  IF top >= 1 - f.bias
                 THEN FieldBytes(x.s, top + f.bias, x.m - Pow2(L - 1), f.fbits - (L - 1), f, n)
                 ELSE FieldBytes(x.s, 0, x.m, x.e - f.lo, f, n)

\* the natural number whose little-endian digits (base 256) are ds
RECURSIVE Digits(_)
Digits(ds) == IF ds = << >> THEN 0 ELSE ds[1] + 256 * Digits(Tail(ds))

\* ds without its leading zero digits, and how many were dropped
RECURSIVE ZeroDigits(_)
ZeroDigits(ds) == IF ds = << >> \/ ds[1] # 0 THEN 0 ELSE 1 + ZeroDigits(Tail(ds))

\* the floating value of format f that the n bytes bs hold
BytesF(bs, f) ==
    LET n == Len(bs)
        s == bs[n] \div 128
        w == Pow2(f.fbits - 8 * (n - 2))      \* fraction bits in byte n - 1
        bexp == (bs[n] % 128) * (256 \div w) + (bs[n - 1] \div w)
        frac == [j \in 1 .. n - 1 |-> IF j = n - 1 THEN bs[j] % w ELSE bs[j]]
        sig == IF bexp = 0 THEN frac ELSE [frac EXCEPT ![n - 1] = @ + w]
        z == ZeroDigits(sig)
    IN  IF bexp = 2 * f.bias + 1
        THEN IF ZeroDigits(frac) = n - 1 THEN Inf(s) ELSE NaN(s)
        ELSE IF z = n - 1 THEN Fin(s, 0, 0)
        ELSE Norm(s, Digits(SubSeq(sig, z + 1, n - 1)),
                  (IF bexp = 0 THEN f.lo ELSE bexp - f.bias - f.fbits) + 8 * z)


(***************************************************************************)
(* State                                                                   *)
(***************************************************************************)

VARIABLES
    buf,            \* the bytes of the buffer main() reads the file into
    bytecode_file,  \* main's moving pointer, as an offset from bytecode_begin
    memory,         \* the global struct Memory: offsets of data and type, size
    run_code,       \* main's run_code, as an offset from bytecode_begin
    name_table,     \* the initialised buckets of the global name_table
    status,         \* "start", "run", "exit", "killed" (by a signal), or "undefined"
                    \* (behaviour undefined)
    exit_code,      \* the value main returned
    last,           \* history: the instruction executed last and the heap it found
    pre,            \* history: buf as it was before that instruction
    invocation,     \* how main was started: "noarg", "nofile" or "file"
    heap,           \* the blocks malloc has handed to NEW and free has not taken back
    prior,          \* history: what last was before, the most recent first
    printed         \* what print has handed to printf, call after call

vars == << buf, bytecode_file, memory, run_code, name_table, status, exit_code, last, pre,
           invocation, heap, prior, printed >>

\* the address malloc gave the buffer (any address serves, the model fixes one)
BufAddr == 4096

bytecode_end == Len(buf)

CanRead(b, off, n) == off >= 0 /\ off + n <= Len(b)
Peek(b, off, n) == [k1 \in 1 .. n |-> b[off + k1]]
Poke(b, off, bs) ==
    [k1 \in 1 .. Len(b) |-> IF k1 > off /\ k1 <= off + Len(bs) THEN bs[k1 - off] ELSE b[k1]]

\* GetType: the nibble of slot index, high nibble for an even index;
\* -1 when the byte lies outside the buffer
GetType(b, index) ==
    LET at == memory.type + (index \div 2)
    IN  IF ~CanRead(b, at, 1) THEN -1
        ELSE IF index % 2 # 0 THEN b[at + 1] % 16
        ELSE b[at + 1] \div 16

\* GET_SIZE, as the macro is written: the second test for 0x02 is never reached
GET_SIZE(t) ==
    IF t = 0 THEN 0
    ELSE IF t = 1 THEN 1
    ELSE IF t = 2 THEN 4
    ELSE IF t = 3 THEN 8
    ELSE IF t = 4 THEN 4
    ELSE IF t = 2 THEN 8
    ELSE 0

\* *(intN_t*)(memory->data + index)
LoadInt(b, index, n) ==
    IF CanRead(b, memory.data + index, n)
    THEN Ok(BytesInt(Peek(b, memory.data + index, n)))
    ELSE Undef

\* *(float*)(memory->data + index), *(double*)(memory->data + index)
LoadF(b, index, f, n) ==
    IF CanRead(b, memory.data + index, n)
    THEN Ok(BytesF(Peek(b, memory.data + index, n), f))
    ELSE Undef

\* apply a conversion to a value that may be undefined
Conv(r, F(_)) == IF r.ub THEN Undef ELSE F(r.v)

\* the typed readers: the stored value converted to the return type
\* a variant of GetByteData that reads the first byte of a slot whose tag is
\* none of the five
GetByteDataRaw(b, index) ==
    LET t == GetType(b, index)
    IN  CASE t = 1 -> LoadInt(b, index, 1)
          [] t = 2 -> Conv(LoadInt(b, index, 4), LAMBDA q: Ok(ToInt8(q)))
          [] t = 3 -> Conv(LoadInt(b, index, 8), LAMBDA q: Ok(ToInt8(q)))
          [] t = 4 -> Conv(LoadF(b, index, Binary32, 4), LAMBDA q: FToInt(q, 8))
          [] t = 5 -> Conv(LoadF(b, index, Binary64, 8), LAMBDA q: FToInt(q, 8))
          [] t = -1 -> Undef
          [] OTHER -> LoadInt(b, index, 1)

GetByteData(b, index) ==
    LET t == GetType(b, index)
    IN  CASE t = 1 -> LoadInt(b, index, 1)
          [] t = 2 -> Conv(LoadInt(b, index, 4), LAMBDA q: Ok(ToInt8(q)))
          [] t = 3 -> Conv(LoadInt(b, index, 8), LAMBDA q: Ok(ToInt8(q)))
          [] t = 4 -> Conv(LoadF(b, index, Binary32, 4), LAMBDA q: FToInt(q, 8))
          [] t = 5 -> Conv(LoadF(b, index, Binary64, 8), LAMBDA q: FToInt(q, 8))
          [] t = -1 -> Undef
          [] OTHER -> Ok(0)

GetIntData(b, index) ==
    LET t == GetType(b, index)
    IN  CASE t = 1 -> LoadInt(b, index, 1)
          [] t = 2 -> LoadInt(b, index, 4)
          [] t = 3 -> LoadInt(b, index, 8)
          [] t = 4 -> Conv(LoadF(b, index, Binary32, 4), LAMBDA q: FToInt(q, 32))
          [] t = 5 -> Conv(LoadF(b, index, Binary64, 8), LAMBDA q: FToInt(q, 32))
          [] t = -1 -> Undef
          [] OTHER -> Ok(0)

\* a variant of GetLongData that reads one byte of an int
GetLongDataNarrow(b, index) ==
    LET t == GetType(b, index)
    IN  CASE t = 1 -> LoadInt(b, index, 1)
          [] t = 2 -> LoadInt(b, index, 1)
          [] t = 3 -> LoadInt(b, index, 8)
          [] t = 4 -> Conv(LoadF(b, index, Binary32, 4), LAMBDA q: FToInt(q, 64))
          [] t = 5 -> Conv(LoadF(b, index, Binary64, 8), LAMBDA q: FToInt(q, 64))
          [] t = -1 -> Undef
          [] OTHER -> Ok(0)

GetLongData(b, index) ==
    LET t == GetType(b, index)
    IN  CASE t = 1 -> LoadInt(b, index, 1)
          [] t = 2 -> LoadInt(b, index, 4)
          [] t = 3 -> LoadInt(b, index, 8)
          [] t = 4 -> Conv(LoadF(b, index, Binary32, 4), LAMBDA q: FToInt(q, 64))
          [] t = 5 -> Conv(LoadF(b, index, Binary64, 8), LAMBDA q: FToInt(q, 64))
          [] t = -1 -> Undef
          [] OTHER -> Ok(0)

\* a variant of GetFloatData that keeps the stored value as it is, without
\* rounding it to float
GetFloatDataUnrounded(b, index) ==
    LET t == GetType(b, index)
    IN  CASE t = 1 -> Conv(LoadInt(b, index, 1), LAMBDA q: Ok(IntToF(q, Binary64)))
          [] t = 2 -> Conv(LoadInt(b, index, 4), LAMBDA q: Ok(IntToF(q, Binary64)))
          [] t = 3 -> Conv(LoadInt(b, index, 8), LAMBDA q: Ok(IntToF(q, Binary64)))
          [] t = 4 -> LoadF(b, index, Binary32, 4)
          [] t = 5 -> LoadF(b, index, Binary64, 8)
          [] t = -1 -> Undef
          [] OTHER -> Ok(Fin(0, 0, 0))

GetFloatData(b, index) ==
    LET t == GetType(b, index)
    IN  CASE t = 1 -> Conv(LoadInt(b, index, 1), LAMBDA q: Ok(IntToF(q, Binary32)))
          [] t = 2 -> Conv(LoadInt(b, index, 4), LAMBDA q: Ok(IntToF(q, Binary32)))
          [] t = 3 -> Conv(LoadInt(b, index, 8), LAMBDA q: Ok(IntToF(q, Binary32)))
          [] t = 4 -> LoadF(b, index, Binary32, 4)
          [] t = 5 -> Conv(LoadF(b, index, Binary64, 8), LAMBDA q: Ok(FToF(q, Binary32)))
          [] t = -1 -> Undef
          [] OTHER -> Ok(Fin(0, 0, 0))

GetDoubleData(b, index) ==
    LET t == GetType(b, index)
    IN  CASE t = 1 -> Conv(LoadInt(b, index, 1), LAMBDA q: Ok(IntToF(q, Binary64)))
          [] t = 2 -> Conv(LoadInt(b, index, 4), LAMBDA q: Ok(IntToF(q, Binary64)))
          [] t = 3 -> Conv(LoadInt(b, index, 8), LAMBDA q: Ok(IntToF(q, Binary64)))
          [] t = 4 -> LoadF(b, index, Binary32, 4)
          [] t = 5 -> LoadF(b, index, Binary64, 8)
          [] t = -1 -> Undef
          [] OTHER -> Ok(Fin(0, 0, 0))

\* GetPtrData: the machine word at the slot, whatever its tag
GetPtrData(b, index) ==
    IF GetType(b, index) = -1 THEN Undef ELSE LoadInt(b, index, 8)

\* *(intN_t*)(memory->data + index) = r, r already converted to the n-byte type
StoreInt(b, index, n, r) ==
    IF r.ub \/ ~CanRead(b, memory.data + index, n) THEN Undef
    ELSE Ok(Poke(b, memory.data + index, IntBytes(r.v, n)))

\* *(float*)(memory->data + index) = r and its double counterpart
StoreF(b, index, f, n, r) ==
    IF r.ub \/ ~CanRead(b, memory.data + index, n) THEN Undef
    ELSE Ok(Poke(b, memory.data + index, FBytes(r.v, f, n)))

\* the typed writers.  Each converts its argument to the slot's type: ic, for an
\* integer argument, is the identity; for a floating one, the truncation.
SetData(b, index, r, IsInt) ==
    LET t == GetType(b, index)
        toI(w) == IF IsInt THEN r ELSE Conv(r, LAMBDA q: FToInt(q, w))
        toF(f) == Conv(r, LAMBDA q: Ok(IF IsInt THEN IntToF(q, f) ELSE FToF(q, f)))
    IN  CASE t = 1 -> StoreInt(b, index, 1, IF IsInt THEN Conv(r, LAMBDA q: Ok(ToInt8(q))) ELSE toI(8))
          [] t = 2 -> StoreInt(b, index, 4, toI(32))
          [] t = 3 -> StoreInt(b, index, 8, toI(64))
          [] t = 4 -> StoreF(b, index, Binary32, 4, toF(Binary32))
          [] t = 5 -> StoreF(b, index, Binary64, 8, toF(Binary64))
          [] t = -1 -> Undef
          [] OTHER -> Ok(b)

SetByteData(b, index, r) == SetData(b, index, r, TRUE)
SetIntData(b, index, r) == SetData(b, index, r, TRUE)
SetLongData(b, index, r) == SetData(b, index, r, TRUE)
SetFloatData(b, index, r) == SetData(b, index, r, FALSE)
SetDoubleData(b, index, r) == SetData(b, index, r, FALSE)

\* SetPtrData: the machine word stored whatever the tag
SetPtrData(b, index, r) ==
    IF GetType(b, index) = -1 THEN Undef ELSE StoreInt(b, index, 8, r)


(***************************************************************************)
(* The operand decoder                                                     *)
(***************************************************************************)

\* one run of the loop "while (state == 0)": ptr is an offset into b, size the
\* value of the local size on entry.  Reading past the buffer is undefined.
RECURSIVE DecodeLoop(_, _, _)
DecodeLoop(b, ptr, size) ==
    IF ~CanRead(b, ptr, 1) THEN [ub |-> TRUE, v |-> 0, ptr |-> ptr, size |-> size]
    ELSE IF b[ptr + 1] < 255
         THEN [ub |-> FALSE, v |-> 255 * size + b[ptr + 1], ptr |-> ptr + 1, size |-> size + 1]
         ELSE DecodeLoop(b, ptr + 1, size + 1)

\* a variant of Get1Parament that returns the pointer to the terminal byte
Get1ParamentOnLast(b, ptr) ==
    LET d1 == DecodeLoop(b, ptr, 0)
    IN  [ub |-> d1.ub, ptr |-> d1.ptr - 1, args |-> << d1.v >>]

Get1Parament(b, ptr) ==
    LET d1 == DecodeLoop(b, ptr, 0)
    IN  [ub |-> d1.ub, ptr |-> d1.ptr, args |-> << d1.v >>]

\* a variant of Get2Parament that does not reset size before its second loop
Get2ParamentNoReset(b, ptr) ==
    LET d1 == DecodeLoop(b, ptr, 0)
        d2 == DecodeLoop(b, d1.ptr, d1.size)
    IN  [ub |-> d1.ub \/ d2.ub, ptr |-> d2.ptr, args |-> << d1.v, d2.v >>]

Get2Parament(b, ptr) ==
    LET d1 == DecodeLoop(b, ptr, 0)
        d2 == DecodeLoop(b, d1.ptr, 0)
    IN  [ub |-> d1.ub \/ d2.ub, ptr |-> d2.ptr, args |-> << d1.v, d2.v >>]

Get3Parament(b, ptr) ==
    LET d1 == DecodeLoop(b, ptr, 0)
        d2 == DecodeLoop(b, d1.ptr, 0)
        d3 == DecodeLoop(b, d2.ptr, 0)
    IN  [ub |-> d1.ub \/ d2.ub \/ d3.ub, ptr |-> d3.ptr, args |-> << d1.v, d2.v, d3.v >>]

Get4Parament(b, ptr) ==
    LET d1 == DecodeLoop(b, ptr, 0)
        d2 == DecodeLoop(b, d1.ptr, 0)
        d3 == DecodeLoop(b, d2.ptr, 0)
        d4 == DecodeLoop(b, d3.ptr, 0)
    IN  [ub |-> d1.ub \/ d2.ub \/ d3.ub \/ d4.ub, ptr |-> d4.ptr,
         args |-> << d1.v, d2.v, d3.v, d4.v >>]

(***************************************************************************)
(* The arithmetic kernel                                                   *)
(***************************************************************************)

\* C's integer division truncates toward zero; dividing by zero is undefined
CDiv(a, b) ==
    IF b = 0 THEN Undef
    ELSE LET q == Abs(a) \div Abs(b)
         IN  Ok(IF (a < 0) # (b < 0) THEN -q ELSE q)

\* a op b on int or long operands (byte operands are promoted to int first);
\* "zero" and "ones" are the quotients a divide instruction that does not
\* trap leaves for a zero divisor
IntOp(op, r1, r2) ==
    IF r1.ub \/ r2.ub THEN Undef
    ELSE CASE op = "+" -> Ok(r1.v + r2.v)
           [] op = "-" -> Ok(r1.v - r2.v)
           [] op = "*" -> Ok(r1.v * r2.v)
           [] op = "/" -> CDiv(r1.v, r2.v)
           [] op = "zero" -> Ok(0)
           [] op = "ones" -> Ok(-1)
           [] op = "neg" -> Ok(-(r1.v))

\* a op b on float or double operands, rounded to the format f
FloatOp(op, r1, r2, f) ==
    IF r1.ub \/ r2.ub THEN Undef
    ELSE CASE op = "+" -> Ok(FAdd(r1.v, r2.v, f))
           [] op = "-" -> Ok(FSub(r1.v, r2.v, f))
           [] op = "*" -> Ok(FMul(r1.v, r2.v, f))
           [] op = "/" -> Ok(FDiv(r1.v, r2.v, f))
           [] op = "neg" -> Ok(FNeg(r1.v))

\* a narrowing to 8 bits that fails when the value is no signed byte
NarrowChecked(r, w) ==
    IF w = 8 THEN Conv(r, LAMBDA q: IF q \in -128 .. 127 THEN Ok(q) ELSE Undef) ELSE r

\* conversion of an integer value to intN_t on assignment: the model's integers
\* fit 32 bits, so only the conversion to int8_t changes a value
Narrow(r, w) == IF w = 8 THEN Conv(r, LAMBDA q: Ok(ToInt8(q))) ELSE r

\* the if-chain ADD, SUB, MUL and DIV share, the four bodies being the same text
\* but for the operator: the first branch whose tag occurs among the three
\* slots picks the getter, the switch on the result's tag picks the store
BinaryArith(op, b, result, operand1, operand2) ==
    LET tr == GetType(b, result)
        t1 == GetType(b, operand1)
        t2 == GetType(b, operand2)
        Occurs(t) == tr = t \/ t1 = t \/ t2 = t
        Chain(dv, fv, lv, iv, bv) ==
            IF Occurs(-1) THEN Undef
            ELSE IF Occurs(5) THEN
                CASE tr = 1 -> StoreInt(b, result, 1, Conv(dv, LAMBDA q: FToInt(q, 8)))
                  [] tr = 2 -> StoreInt(b, result, 4, Conv(dv, LAMBDA q: FToInt(q, 32)))
                  [] tr = 3 -> StoreInt(b, result, 8, Conv(dv, LAMBDA q: FToInt(q, 64)))
                  [] tr = 4 -> StoreF(b, result, Binary32, 4, Conv(dv, LAMBDA q: Ok(FToF(q, Binary32))))
                  [] tr = 5 -> StoreF(b, result, Binary64, 8, dv)
                  [] OTHER -> Ok(b)
            ELSE IF Occurs(4) THEN
                CASE tr = 1 -> StoreInt(b, result, 1, Conv(fv, LAMBDA q: FToInt(q, 8)))
                  [] tr = 2 -> StoreInt(b, result, 4, Conv(fv, LAMBDA q: FToInt(q, 32)))
                  [] tr = 3 -> StoreInt(b, result, 8, Conv(fv, LAMBDA q: FToInt(q, 64)))
                  [] tr = 4 -> StoreF(b, result, Binary32, 4, fv)
                  [] OTHER -> Ok(b)
            ELSE IF Occurs(3) THEN
                CASE tr = 1 -> StoreInt(b, result, 1, Narrow(lv, 8))
                  [] tr = 2 -> StoreInt(b, result, 4, Narrow(lv, 32))
                  [] tr = 3 -> StoreInt(b, result, 8, lv)
                  [] OTHER -> Ok(b)
            ELSE IF Occurs(2) THEN
                CASE tr = 1 -> StoreInt(b, result, 1, Narrow(iv, 8))
                  [] tr = 2 -> StoreInt(b, result, 4, iv)
                  [] OTHER -> Ok(b)
            ELSE IF Occurs(1) THEN
                CASE tr = 1 -> StoreInt(b, result, 1, Narrow(bv, 8))
                  [] OTHER -> Ok(b)
            ELSE Ok(b)
    IN  Chain(FloatOp(op, GetDoubleData(b, operand1), GetDoubleData(b, operand2), Binary64),
              FloatOp(op, GetFloatData(b, operand1), GetFloatData(b, operand2), Binary32),
              IntOp(op, GetLongData(b, operand1), GetLongData(b, operand2)),
              IntOp(op, GetIntData(b, operand1), GetIntData(b, operand2)),
              IntOp(op, GetByteData(b, operand1), GetByteData(b, operand2)))

\* an integer division is evaluated with a zero divisor: the branch taken is
\* an integer one (REM has no other), the switch has a case for the result's
\* tag, and the getter of that branch returns 0 for operand2
ZeroDivides(op, b, result, operand1, operand2) ==
    LET tr == GetType(b, result)
        t1 == GetType(b, operand1)
        t2 == GetType(b, operand2)
        Occurs(t) == tr = t \/ t1 = t \/ t2 = t
        wt == IF op = "/" /\ (Occurs(5) \/ Occurs(4)) THEN 0
              ELSE IF Occurs(3) THEN 3
              ELSE IF Occurs(2) THEN 2
              ELSE IF Occurs(1) THEN 1
              ELSE 0
        Get(index) == CASE wt = 3 -> GetLongData(b, index)
                        [] wt = 2 -> GetIntData(b, index)
                        [] OTHER -> GetByteData(b, index)
    IN  /\ ~Occurs(-1)
        /\ wt # 0
        /\ tr \in 1 .. wt
        /\ ~Get(operand1).ub
        /\ ~Get(operand2).ub
        /\ Get(operand2).v = 0

\* C's remainder has the sign of the dividend; by zero it is undefined
CRem(a, b) == IF b = 0 THEN Undef ELSE Ok(a - b * CDiv(a, b).v)

\* the if-chain REM, SHL, SHR, SAR, AND, OR and XOR share: as the one above
\* without the double and float branches.  w is the width the operands are
\* promoted to.  ">>" on a negative value is the arithmetic shift every
\* compiler of the VM implements; a count outside 0 .. w - 1 is undefined.
\* "first" is the remainder a divide instruction that does not trap leaves
\* for a zero divisor; "/2^" divides by the power of two, rounding to zero.
BinaryInt(op, b, result, operand1, operand2) ==
    LET tr == GetType(b, result)
        t1 == GetType(b, operand1)
        t2 == GetType(b, operand2)
        Occurs(t) == tr = t \/ t1 = t \/ t2 = t
        On(p1, p2) == CASE op = "&" -> p1 /\ p2
                        [] op = "|" -> p1 \/ p2
                        [] OTHER -> p1 # p2
        RECURSIVE Bits(_, _)
        Bits(x, y) ==
            IF x \in { 0, -1 } /\ y \in { 0, -1 }
            THEN IF On(x = -1, y = -1) THEN -1 ELSE 0
            ELSE (IF On(x % 2 = 1, y % 2 = 1) THEN 1 ELSE 0) + 2 * Bits(x \div 2, y \div 2)
        Apply(r1, r2, w) ==
            IF r1.ub \/ r2.ub THEN Undef
            ELSE CASE op = "%" -> CRem(r1.v, r2.v)
                   [] op = "first" -> Ok(r1.v)
                   [] op \in { "&", "|", "^" } -> Ok(Bits(r1.v, r2.v))
                   [] op = "<<" -> IF r2.v < 0 \/ r2.v >= w \/ r1.v < 0
                                        \/ BitLen(r1.v) + r2.v > w - 1
                                   THEN Undef
                                   ELSE Ok(r1.v * Pow2(r2.v))
                   [] op = ">>" -> IF r2.v < 0 \/ r2.v >= w THEN Undef
                                   ELSE Ok(r1.v \div Pow2(r2.v))
                   [] op = "/2^" -> IF r2.v < 0 \/ r2.v >= w THEN Undef
                                    ELSE CDiv(r1.v, Pow2(r2.v))
        lv == Apply(GetLongData(b, operand1), GetLongData(b, operand2), 64)
        iv == Apply(GetIntData(b, operand1), GetIntData(b, operand2), 32)
        bv == Apply(GetByteData(b, operand1), GetByteData(b, operand2), 32)
    IN  IF Occurs(-1) THEN Undef
        ELSE IF Occurs(3) THEN
            CASE tr = 1 -> StoreInt(b, result, 1, Narrow(lv, 8))
              [] tr = 2 -> StoreInt(b, result, 4, Narrow(lv, 32))
              [] tr = 3 -> StoreInt(b, result, 8, lv)
              [] OTHER -> Ok(b)
        ELSE IF Occurs(2) THEN
            CASE tr = 1 -> StoreInt(b, result, 1, Narrow(iv, 8))
              [] tr = 2 -> StoreInt(b, result, 4, iv)
              [] OTHER -> Ok(b)
        ELSE IF Occurs(1) THEN
            CASE tr = 1 -> StoreInt(b, result, 1, Narrow(bv, 8))
              [] OTHER -> Ok(b)
        ELSE Ok(b)

\* a variant of SUB that subtracts the first operand from the second
SUBReversed(b, result, operand1, operand2) == BinaryArith("-", b, result, operand2, operand1)

\* an ADD that reads its operands once more after it has stored: the same
\* ADD unless the result slot is one of the operand slots
ADDRereading(b, result, operand1, operand2) ==
    LET once == BinaryArith("+", b, result, operand1, operand2)
    IN  IF once.ub THEN once ELSE BinaryArith("+", once.v, result, operand1, operand2)

ADD(b, result, operand1, operand2) == BinaryArith("+", b, result, operand1, operand2)
SUB(b, result, operand1, operand2) == BinaryArith("-", b, result, operand1, operand2)
MUL(b, result, operand1, operand2) == BinaryArith("*", b, result, operand1, operand2)
DIV(b, result, operand1, operand2) == BinaryArith("/", b, result, operand1, operand2)
REM(b, result, operand1, operand2) == BinaryInt("%", b, result, operand1, operand2)

\* a variant of NEG that stores into the operand's slot
NEGIntoOperand(b, result, operand1) == BinaryArith("neg", b, operand1, result, result)

\* NEG: the if-chain of the arithmetic over the two slots, the operator the
\* unary minus on what the getter returns
NEG(b, result, operand1) == BinaryArith("neg", b, result, operand1, operand1)

\* a variant of SHR that rounds a negative quotient toward zero
SHRTowardZero(b, result, operand1, operand2) == BinaryInt("/2^", b, result, operand1, operand2)

SHL(b, result, operand1, operand2) == BinaryInt("<<", b, result, operand1, operand2)
SHR(b, result, operand1, operand2) == BinaryInt(">>", b, result, operand1, operand2)
SAR(b, result, operand1, operand2) == BinaryInt(">>", b, result, operand1, operand2)
\* the AND that works on floating slots as ADD does
ANDOnFloats(b, result, operand1, operand2) == BinaryArith("+", b, result, operand1, operand2)

AND(b, result, operand1, operand2) == BinaryInt("&", b, result, operand1, operand2)
OR(b, result, operand1, operand2) == BinaryInt("|", b, result, operand1, operand2)
XOR(b, result, operand1, operand2) == BinaryInt("^", b, result, operand1, operand2)

\* a variant of the switch on the comparison code in which 3 tests <
CmpCaseLessForLessEqual(c, lt, eq, gt) ==
    CASE c = 0 -> eq
      [] c = 1 -> ~eq
      [] c = 2 -> lt
      [] c = 3 -> lt
      [] c = 4 -> gt
      [] c = 5 -> gt \/ eq

\* the operator each case of CMP's switch applies: ==, !=, <, <=, >, >=,
\* given whether operand1 is less than, equal to, greater than operand2
CmpCase(c, lt, eq, gt) ==
    CASE c = 0 -> eq
      [] c = 1 -> ~eq
      [] c = 2 -> lt
      [] c = 3 -> lt \/ eq
      [] c = 4 -> gt
      [] c = 5 -> gt \/ eq

\* CMP: the switch on the byte at slot opcode, each case the if-chain of the
\* arithmetic with a comparison in the place of the operator; the int the
\* comparison yields is converted to the result's type by the assignment
CMP(b, result, opcode, operand1, operand2) ==
    LET c == GetByteData(b, opcode)
        tr == GetType(b, result)
        t1 == GetType(b, operand1)
        t2 == GetType(b, operand2)
        Occurs(t) == tr = t \/ t1 = t \/ t2 = t
        Truth(p) == IF p THEN 1 ELSE 0
        OfFloats(r1, r2) ==
            IF r1.ub \/ r2.ub THEN Undef
            ELSE Ok(Truth(CmpCase(c.v, FLess(r1.v, r2.v), FEq(r1.v, r2.v), FLess(r2.v, r1.v))))
        OfInts(r1, r2) ==
            IF r1.ub \/ r2.ub THEN Undef
            ELSE Ok(Truth(CmpCase(c.v, r1.v < r2.v, r1.v = r2.v, r1.v > r2.v)))
        AsFloat(r, f) == Conv(r, LAMBDA q: Ok(IntToF(q, f)))
        Chain(dv, fv, lv, iv, bv) ==
            IF c.ub THEN Undef
            ELSE IF c.v \notin 0 .. 5 THEN Ok(b)
            ELSE IF Occurs(-1) THEN Undef
            ELSE IF Occurs(5) THEN
                CASE tr = 1 -> StoreInt(b, result, 1, dv)
                  [] tr = 2 -> StoreInt(b, result, 4, dv)
                  [] tr = 3 -> StoreInt(b, result, 8, dv)
                  [] tr = 4 -> StoreF(b, result, Binary32, 4, AsFloat(dv, Binary32))
                  [] tr = 5 -> StoreF(b, result, Binary64, 8, AsFloat(dv, Binary64))
                  [] OTHER -> Ok(b)
            ELSE IF Occurs(4) THEN
                CASE tr = 1 -> StoreInt(b, result, 1, fv)
                  [] tr = 2 -> StoreInt(b, result, 4, fv)
                  [] tr = 3 -> StoreInt(b, result, 8, fv)
                  [] tr = 4 -> StoreF(b, result, Binary32, 4, AsFloat(fv, Binary32))
                  [] OTHER -> Ok(b)
            ELSE IF Occurs(3) THEN
                CASE tr = 1 -> StoreInt(b, result, 1, lv)
                  [] tr = 2 -> StoreInt(b, result, 4, lv)
                  [] tr = 3 -> StoreInt(b, result, 8, lv)
                  [] OTHER -> Ok(b)
            ELSE IF Occurs(2) THEN
                CASE tr = 1 -> StoreInt(b, result, 1, iv)
                  [] tr = 2 -> StoreInt(b, result, 4, iv)
                  [] OTHER -> Ok(b)
            ELSE IF Occurs(1) THEN
                CASE tr = 1 -> StoreInt(b, result, 1, bv)
                  [] OTHER -> Ok(b)
            ELSE Ok(b)
    IN  Chain(OfFloats(GetDoubleData(b, operand1), GetDoubleData(b, operand2)),
              OfFloats(GetFloatData(b, operand1), GetFloatData(b, operand2)),
              OfInts(GetLongData(b, operand1), GetLongData(b, operand2)),
              OfInts(GetIntData(b, operand1), GetIntData(b, operand2)),
              OfInts(GetByteData(b, operand1), GetByteData(b, operand2)))

(***************************************************************************)
(* Control flow, pointers and the host call                                *)
(***************************************************************************)

\* PTR(index, ptr): the address of data + index stored into slot ptr
PTR(b, index, ptr) == SetPtrData(b, ptr, Ok(BufAddr + memory.data + index))

\* IF returns ptr plus the long at the chosen slot
IF_(b, ptr, condition, true_branche, false_branche) ==
    LET c == GetByteData(b, condition)
        off == IF c.v # 0 THEN GetLongData(b, true_branche) ELSE GetLongData(b, false_branche)
    IN  IF c.ub \/ off.ub THEN Undef ELSE Ok(ptr + off.v)

\* GOTO returns ptr plus the long at slot offset
GOTO(b, ptr, offset) == Conv(GetLongData(b, offset), LAMBDA q: Ok(ptr + q))

\* the C string at address addr: its bytes up to the terminating zero
RECURSIVE StrAt(_, _)
StrAt(b, off) ==
    IF ~CanRead(b, off, 1) THEN Undef
    ELSE IF b[off + 1] = 0 THEN Ok(<< >>)
    ELSE LET t == StrAt(b, off + 1)
         IN  IF t.ub THEN Undef ELSE Ok(<< b[off + 1] >> \o t.v)

CString(b, addr) == StrAt(b, addr - BufAddr)

\* the literal "print"
PrintName == << 112, 114, 105, 110, 116 >>

\* hash: djb2, reduced modulo 1024 (which divides the width of unsigned long)
RECURSIVE hashFrom(_, _)
hashFrom(h, str) ==
    IF str = << >> THEN h % 1024
    ELSE hashFrom((h * 33 + Head(str)) % 1024, Tail(str))

hash(str) == hashFrom(5381, str)

\* InitializeNameTable: the bucket of "print" gets the name, the handler, and
\* a next pointer to a node malloc leaves uninitialised; every other bucket
\* stays zero
InitializeNameTable ==
    [h \in {hash(PrintName)} |-> [first |-> PrintName, second |-> "print", next |-> "uninitialised"]]

\* GetFunction: strcmp against the bucket's name; a zero bucket hands strcmp a
\* null pointer and the node after "print" hands it an indeterminate one
GetFunction(tbl, name) ==
    LET h == hash(name)
    IN  IF h \notin DOMAIN tbl THEN Undef
        ELSE IF tbl[h].first = name THEN Ok(tbl[h].second)
        ELSE Undef

\* print: "PRINT" and a newline go to printf, then the string at the pointer
\* in the first argument slot, and the count of bytes the second printf wrote
\* goes to the return slot; out is what the two calls wrote.  A conversion
\* specification in the string reads arguments that were never passed.
print(b, args, return_value) ==
    IF Len(args) = 0 THEN Undef
    ELSE LET p == GetPtrData(b, args[1])
             fmt == IF p.ub THEN Undef ELSE CString(b, p.v)
             Returned(w) ==
                 IF w.ub THEN Undef
                 ELSE [ub |-> FALSE, v |-> w.v, out |-> << << 80, 82, 73, 78, 84, 10 >>, fmt.v >>]
         IN  IF fmt.ub \/ (\E k1 \in 1 .. Len(fmt.v) : fmt.v[k1] = 37) THEN Undef
             ELSE Returned(SetIntData(b, return_value, Ok(Len(fmt.v))))

\* a variant of INVOKE that hands the handler the argument slots last first
INVOKEReversed(b, tbl, func, return_value, args) ==
    LET p == GetPtrData(b, func)
        name == IF p.ub THEN Undef ELSE CString(b, p.v)
        fn == IF name.ub THEN Undef ELSE GetFunction(tbl, name.v)
    IN  IF fn.ub THEN Undef
        ELSE print(b, [k1 \in 1 .. Len(args) |-> args[Len(args) + 1 - k1]], return_value)

\* INVOKE: the name behind the pointer at slot func is looked up and called
INVOKE(b, tbl, func, return_value, args) ==
    LET p == GetPtrData(b, func)
        name == IF p.ub THEN Undef ELSE CString(b, p.v)
        fn == IF name.ub THEN Undef ELSE GetFunction(tbl, name.v)
    IN  IF fn.ub THEN Undef
        ELSE print(b, args, return_value)

\* the arg_count_num operands after the three fixed ones
RECURSIVE DecodeArgs(_, _, _)
DecodeArgs(b, ptr, count) ==
    IF count <= 0 THEN [ub |-> FALSE, ptr |-> ptr, args |-> << >>]
    ELSE LET d1 == DecodeLoop(b, ptr, 0)
             rest == DecodeArgs(b, d1.ptr, count - 1)
         IN  IF d1.ub THEN [ub |-> TRUE, ptr |-> d1.ptr, args |-> << >>]
             ELSE [ub |-> rest.ub, ptr |-> rest.ptr, args |-> << d1.v >> \o rest.args]

\* a variant of GetUnknownCountParamentAndINVOKE whose loop runs while
\* read_arg < arg_count_num - 1
GetUnknownCountParamentOneFewer(b, tbl, ptr) ==
    LET d1 == DecodeLoop(b, ptr, 0)
        d2 == DecodeLoop(b, d1.ptr, 0)
        d3 == DecodeLoop(b, d2.ptr, 0)
        arg_count_num == IF d3.ub THEN Undef ELSE GetLongData(b, d3.v)
        bad == d1.ub \/ d2.ub \/ d3.ub \/ arg_count_num.ub
        da == IF bad \/ arg_count_num.v < 0 THEN [ub |-> TRUE, ptr |-> d3.ptr, args |-> << >>]
              ELSE DecodeArgs(b, d3.ptr, arg_count_num.v - 1)
        res == IF da.ub THEN Undef ELSE INVOKE(b, tbl, d1.v, d2.v, da.args)
    IN  [ub |-> da.ub \/ res.ub, ptr |-> da.ptr, args |-> << d1.v, d2.v, d3.v >> \o da.args,
         count |-> arg_count_num.v, mem |-> res.v, out |-> IF res.ub THEN << >> ELSE res.out]

\* GetUnknownCountParamentAndINVOKE: func, return_value, arg_count, then as
\* many operands as the long at slot arg_count says, then the call.  A
\* negative long is a size_t no allocation satisfies.
GetUnknownCountParamentAndINVOKE(b, tbl, ptr) ==
    LET d1 == DecodeLoop(b, ptr, 0)
        d2 == DecodeLoop(b, d1.ptr, 0)
        d3 == DecodeLoop(b, d2.ptr, 0)
        arg_count_num == IF d3.ub THEN Undef ELSE GetLongData(b, d3.v)
        bad == d1.ub \/ d2.ub \/ d3.ub \/ arg_count_num.ub
        da == IF bad \/ arg_count_num.v < 0 THEN [ub |-> TRUE, ptr |-> d3.ptr, args |-> << >>]
              ELSE DecodeArgs(b, d3.ptr, arg_count_num.v)
        res == IF da.ub THEN Undef ELSE INVOKE(b, tbl, d1.v, d2.v, da.args)
    IN  [ub |-> da.ub \/ res.ub, ptr |-> da.ptr, args |-> << d1.v, d2.v, d3.v >> \o da.args,
         count |-> arg_count_num.v, mem |-> res.v, out |-> IF res.ub THEN << >> ELSE res.out]


(***************************************************************************)
(* Copies between slots and through pointers                               *)
(***************************************************************************)

\* WriteData: memcpy of the bytes bs to data + index
WriteData(b, index, bs) ==
    IF bs = << >> THEN Ok(b)
    ELSE IF ~CanRead(b, memory.data + index, Len(bs)) THEN Undef
    ELSE Ok(Poke(b, memory.data + index, bs))

\* a variant of LOAD that copies the eight bytes of a machine word whatever
\* the tag of the target
LOADWord(b, ptr, operand) ==
    IF GetType(b, operand) = -1 \/ ~CanRead(b, memory.data + ptr, 8) THEN Undef
    ELSE WriteData(b, operand, Peek(b, memory.data + ptr, 8))

\* LOAD(ptr, operand): GET_SIZE of operand's tag bytes copied from data + ptr
\* to data + operand; memcpy is undefined when the two ranges overlap
LOAD(b, ptr, operand) ==
    LET t == GetType(b, operand)
        size == GET_SIZE(t)
    IN  IF t = -1 THEN Undef
        ELSE IF size = 0 THEN Ok(b)
        ELSE IF ~CanRead(b, memory.data + ptr, size) THEN Undef
        ELSE IF Abs(ptr - operand) < size THEN Undef
        ELSE WriteData(b, operand, Peek(b, memory.data + ptr, size))

\* what a copy through a pointer leaves: the buffer and the heap
Stored(b, hp) == [ub |-> FALSE, v |-> b, hp |-> hp]

\* memcpy of the bytes bs to the address target: into the file buffer, into a
\* live heap block, or undefined; from is the address the bytes come from
CopyTo(b, hp, target, from, bs) ==
    LET size == Len(bs)
        Within(blk) == target >= blk.at /\ target + size <= blk.at + Len(blk.bytes)
    IN  IF size = 0 THEN Stored(b, hp)
        ELSE IF target >= BufAddr /\ target + size <= BufAddr + Len(b)
        THEN IF Abs(target - from) < size THEN Undef
             ELSE Stored(Poke(b, target - BufAddr, bs), hp)
        ELSE IF \E blk \in hp : Within(blk)
        THEN LET blk == CHOOSE k \in hp : Within(k)
             IN  Stored(b, (hp \ { blk })
                             \cup { [at |-> blk.at, bytes |-> Poke(blk.bytes, target - blk.at, bs)] })
        ELSE Undef

\* STORE(ptr, operand): GET_SIZE of operand's tag bytes copied from
\* data + operand to the address held in the machine word at data + ptr
STORE(b, hp, ptr, operand) ==
    LET t == GetType(b, operand)
        size == GET_SIZE(t)
        target == LoadInt(b, ptr, 8)
    IN  IF t = -1 \/ target.ub THEN Undef
        ELSE IF size = 0 THEN Stored(b, hp)
        ELSE IF ~CanRead(b, memory.data + operand, size) THEN Undef
        ELSE CopyTo(b, hp, target.v, BufAddr + memory.data + operand,
                    Peek(b, memory.data + operand, size))

(***************************************************************************)
(* The allocator                                                           *)
(***************************************************************************)

MaxBlocks == 2   \* addresses malloc has to give
BlockSpan == 16  \* bytes between two of them: the largest block it gives

\* the addresses malloc returns (any serve, as long as the blocks lie apart
\* from each other and from the file buffer)
HeapBase == 32768

\* what malloc(n) may return with the blocks hp live: the null pointer, as it
\* may always, or an address no live block has.  A negative long is a size_t
\* beyond any block.
Mallocs(hp, n) ==
    { 0 } \cup IF n \in 0 .. BlockSpan
               THEN { HeapBase + BlockSpan * k1 : k1 \in 0 .. MaxBlocks - 1 } \ { blk.at : blk \in hp }
               ELSE { }

\* NEW(ptr, size), a reserved word here: malloc of the long at slot size, and the eight bytes of
\* what it returned, data, copied to slot ptr; the bytes of a new block are
\* indeterminate (-1)
NEW_(b, hp, ptr, size, data) ==
    LET size_value == GetLongData(b, size)
        written == WriteData(b, ptr, IntBytes(data, 8))
    IN  IF size_value.ub \/ written.ub THEN Undef
        ELSE Stored(written.v,
                    IF data = 0 THEN hp
                    ELSE hp \cup { [at |-> data, bytes |-> [k1 \in 1 .. size_value.v |-> -1]] })

\* a variant of FREE that reads the pointer and does not call free
FREEWithoutFree(b, hp, ptr) ==
    IF GetType(b, ptr) = -1 \/ LoadInt(b, ptr, 8).ub THEN Undef ELSE Stored(b, hp)

\* a variant of FREE that clears the slot once the block is released
FREEClearing(b, hp, ptr) ==
    LET free_ptr == LoadInt(b, ptr, 8)
    IN  IF GetType(b, ptr) = -1 \/ free_ptr.ub THEN Undef
        ELSE IF free_ptr.v = 0 THEN Stored(b, hp)
        ELSE IF \E blk \in hp : blk.at = free_ptr.v
        THEN Stored(Poke(b, memory.data + ptr, IntBytes(0, 8)), { blk \in hp : blk.at # free_ptr.v })
        ELSE Undef

\* FREE(ptr): free of the machine word at slot ptr: nothing for the null
\* pointer, the end of the block that starts there, undefined for any other
\* address
FREE(b, hp, ptr) ==
    LET free_ptr == LoadInt(b, ptr, 8)
    IN  IF GetType(b, ptr) = -1 \/ free_ptr.ub THEN Undef
        ELSE IF free_ptr.v = 0 THEN Stored(b, hp)
        ELSE IF \E blk \in hp : blk.at = free_ptr.v
        THEN Stored(b, { blk \in hp : blk.at # free_ptr.v })
        ELSE Undef

(***************************************************************************)
(* The bytecode files the machine is run on                                *)
(***************************************************************************)

MaxPad == 2     \* NOPs in front of a control-flow program: 0 .. MaxPad
MaxArgs == 2    \* values of the argument count of an INVOKE: 0 .. MaxArgs

Zeros(n) == [k1 \in 1 .. n |-> 0]
Fill(n, v) == [k1 \in 1 .. n |-> v]

\* the file: magic, four reserved bytes, the big-endian size, data, type, code
Header(size) == << 65, 81, 66, 67, 0, 0, 0, 0, 0, 0, 0, 0 >>
                \o << size \div 16777216, (size \div 65536) % 256, (size \div 256) % 256, size % 256 >>

Image(data, type, code) == Header(Len(data)) \o data \o type \o code

\* the type array tagging the slots in DOMAIN tags, every other slot void
TypeArray(size, tags) ==
    LET TagOf(i) == IF i \in DOMAIN tags THEN tags[i] ELSE 0
    IN  [k1 \in 1 .. (size \div 2) |-> TagOf(2 * (k1 - 1)) * 16 + TagOf(2 * (k1 - 1) + 1)]

\* the eight bytes of a slot holding value v under tag t
SlotBytes(t, v) ==
    LET bs == CASE t = 1 -> IntBytes(v, 1)
                [] t = 2 -> IntBytes(v, 4)
                [] t = 3 -> IntBytes(v, 8)
                [] t = 4 -> FBytes(v, Binary32, 4)
                [] t = 5 -> FBytes(v, Binary64, 8)
    IN  bs \o Zeros(8 - Len(bs))

Tags == 1 .. 5

\* operand values per tag: 3, -7, and one that tells the working types apart
FirstValues(t) ==
    CASE t = 1 -> { 3, -7, 100 }
      [] t \in { 2, 3 } -> { 3, -7, 16777217 }
      [] OTHER -> { Fin(0, 3, 0), Fin(1, 7, 0), Fin(0, 5, -1) }

SecondValues(t) ==
    CASE t \in { 1, 2, 3 } -> { 4, 1, 0 }
      [] OTHER -> { Fin(0, 1, 2), Fin(0, 1, 0), Fin(0, 0, 0) }

\* r at slot 16, a at slot 0, b at slot 8; one instruction  op 16 0 8
ArithImage(ta, va, tb, vb, tr, opc) ==
    Image(SlotBytes(ta, va) \o SlotBytes(tb, vb) \o Fill(8, 170),
          TypeArray(24, (0 :> ta) @@ (8 :> tb) @@ (16 :> tr)),
          << opc, 16, 0, 8 >>)

ArithImages ==
    UNION { { ArithImage(tt[1], va, tt[2], vb, tt[3], opc) :
                va \in FirstValues(tt[1]), vb \in SecondValues(tt[2]), opc \in 6 .. 9 } :
            tt \in Tags \X Tags \X Tags }

\* the same files for REM, SHL, SHR, SAR, AND, OR and XOR
IntegerImages ==
    UNION { { ArithImage(tt[1], va, tt[2], vb, tt[3], opc) :
                va \in FirstValues(tt[1]), vb \in SecondValues(tt[2]),
                opc \in { 10, 12, 13, 14, 16, 17, 18 } } :
            tt \in Tags \X Tags \X Tags }

\* the values compared with those of FirstValues: one that equals 3, and 2,
\* which equals 2.5 once that is truncated
ComparedValues(t) ==
    CASE t \in { 1, 2, 3 } -> { 3, 2 }
      [] OTHER -> { Fin(0, 3, 0), Fin(0, 1, 1) }

\* a at slot 0, b at slot 8, r at slot 16, the comparison code c, a byte, at
\* slot 24; one instruction  CMP 16 24 0 8
CmpImage(ta, va, tb, vb, tr, c) ==
    Image(SlotBytes(ta, va) \o SlotBytes(tb, vb) \o Fill(8, 170) \o SlotBytes(1, c),
          TypeArray(32, (0 :> ta) @@ (8 :> tb) @@ (16 :> tr) @@ (24 :> 1)),
          << 19, 16, 24, 0, 8 >>)

\* the codes 0 .. 5 on every combination of tags, int 5 against int 9 into a
\* byte, and a code that is none of the six
CmpImages ==
    UNION { { CmpImage(tt[1], va, tt[2], vb, tt[3], c) :
                va \in FirstValues(tt[1]), vb \in ComparedValues(tt[2]), c \in 0 .. 5 } :
            tt \in Tags \X Tags \X Tags }
        \cup { CmpImage(2, 5, 2, 9, 1, c) : c \in 0 .. 6 }

\* control-flow programs: cond (byte) at slot 0, two longs at slots 8 and 16
Instructions ==
    { << 0 >>, << 21 >>, << 22, 8 >>, << 15, 0, 8, 16 >>, << 23 >>, << 255 >>, << 24 >>,
      << 6, 16, 8, 8 >> }

ControlImage(cond, off1, code) ==
    Image(SlotBytes(1, cond) \o SlotBytes(3, off1) \o SlotBytes(3, 1),
          TypeArray(24, (0 :> 1) @@ (8 :> 3) @@ (16 :> 3)),
          code)

\* the offsets tried: the start, the second instruction, the last one, the
\* end, and one before the buffer
ControlImages ==
    UNION { { ControlImage(cond, off1, Zeros(pi[1]) \o pi[2] \o pi[3] \o << 0 >>) :
                cond \in { 0, 1 },
                off1 \in { 0, pi[1] + Len(pi[2]), pi[1] + Len(pi[2]) + Len(pi[3]),
                           pi[1] + Len(pi[2]) + Len(pi[3]) + 1, -100 } } :
            pi \in (0 .. MaxPad) \X Instructions \X Instructions }

\* "print" at slot 0, the string "ok" at slot 8, pointer slots 16 and 24, the
\* argument count, the bytes of a long under the tag tc, at slot 32, an int
\* at slot 40; the code takes the two addresses and calls print with count
\* operands, storing into slot ret
InvokeImage(tc, count, ret) ==
    Image(PrintName \o Zeros(3) \o << 111, 107 >> \o Zeros(6) \o Zeros(16)
              \o SlotBytes(3, count) \o Fill(8, 170),
          TypeArray(48, (32 :> tc) @@ (40 :> 2)),
          << 5, 0, 16, 5, 8, 24, 20, 16, ret, 32 >> \o Fill(count, 24) \o << 0 >>)

\* the count a long, and the count slot void or a reference
InvokeImages ==
    { InvokeImage(3, count, ret) : count \in 0 .. MaxArgs, ret \in { 32, 40 } }
        \cup { InvokeImage(tc, count, 40) : tc \in { 0, 6 }, count \in 1 .. MaxArgs }

\* the same call with another name at slot 0 and one argument: "ok", whose
\* bucket is empty, "gym", whose bucket is that of "print", "prin", and the
\* empty string; and the call of print with two arguments, the pointer slots
\* 16 and 24 in either order
NameImages ==
    { Image(pi[1] \o Zeros(8 - Len(pi[1])) \o << 111, 107 >> \o Zeros(6) \o Zeros(16)
                \o SlotBytes(3, Len(pi[2])) \o Fill(8, 170),
            TypeArray(48, (32 :> 3) @@ (40 :> 2)),
            << 5, 0, 16, 5, 8, 24, 20, 16, 40, 32 >> \o pi[2] \o << 0 >>) :
        pi \in { << << 111, 107 >>, << 24 >> >>, << << 103, 121, 109 >>, << 24 >> >>,
                 << << 112, 114, 105, 110 >>, << 24 >> >>, << << >>, << 24 >> >>,
                 << PrintName, << 16, 24 >> >>, << PrintName, << 24, 16 >> >> } }

\* files whose magic is wrong in the last or the first byte, one of them
\* nothing but the four bytes, one with a program behind the wrong magic
BadImages ==
    { << 65, 81, 66, 68 >> \o Zeros(28), << 65, 81, 66, 68 >>, << 0, 81, 66, 67 >> \o Zeros(28),
      << 67, 66, 81, 65 >> \o Zeros(11) \o << 2, 1, 0, 16, 0 >> \o Zeros(8) }

\* files that end before the magic, before the size, before the type array
TruncatedImages == { << 65, 81 >>, << 65, 81, 66, 67 >>, Header(24) \o Zeros(24) }

\* files with an odd number of data bytes, all of them byte slots but the last,
\* whose tag is t: the type array takes a byte for every two slots begun, and
\* six NOPs follow it
OddImages ==
    { Header(size) \o Fill(size, 7) \o Fill(size \div 2, 17) \o << t * 16 >> \o Zeros(6) :
        size \in { 1, 3 }, t \in { 0, 2 } }

\* the bytes 1 .. 8 at slot 0, slots 8 and 16 filled; slot pi[2] has tag t
\* (void, one of the five numeric tags, a reference) and the one instruction
\* is  LOAD pi[1] pi[2]: targets apart from the source, overlapping it, and
\* reaching past the data
LoadImages ==
    { Image(<< 1, 2, 3, 4, 5, 6, 7, 8 >> \o Fill(16, 170),
            TypeArray(24, (0 :> 3) @@ (pi[2] :> t)),
            << 1, pi[1], pi[2], 0 >>) :
        t \in 0 .. 6, pi \in { << 0, 8 >>, << 8, 0 >>, << 0, 4 >>, << 0, 20 >>, << 20, 8 >> } }

\* the bytes 1 .. 8 at slot 0 under tag t, a pointer slot at 8, slot 16
\* filled; the code either takes the address of a slot into slot 8 and stores
\* slot 0 through it, or stores through the pointer slot as it is, null
StoreImages ==
    { Image(<< 1, 2, 3, 4, 5, 6, 7, 8 >> \o Zeros(8) \o Fill(8, 170),
            TypeArray(24, (0 :> t) @@ (8 :> 3)),
            code) :
        t \in 0 .. 6,
        code \in { << 5, 16, 8, 2, 8, 0, 0 >>, << 5, 20, 8, 2, 8, 0, 0 >>, << 5, 4, 8, 2, 8, 0, 0 >>,
                   << 5, 8, 8, 2, 8, 0, 0 >>, << 2, 8, 0, 0 >> } }

\* pointer slots at 0 and 16, the size n (long) at slot 8, a long at slot 24.
\* The programs of NEW and FREE: the pair, the pair with a NOP or a STORE
\* into the block between, with a block allocated before, a second FREE, a
\* second NEW or a PTR on the slot between, and a FREE of the null pointer
HeapImages ==
    { Image(Zeros(8) \o SlotBytes(3, n) \o Zeros(8) \o << 1, 2, 3, 4, 5, 6, 7, 8 >>,
            TypeArray(32, (0 :> 6) @@ (8 :> 3) @@ (16 :> 6) @@ (24 :> 3)),
            code \o << 0 >>) :
        n \in { 8, 0, -1 },
        code \in { << 3, 0, 8, 4, 0 >>, << 3, 0, 8, 0, 4, 0 >>, << 3, 0, 8, 2, 0, 24, 4, 0 >>,
                   << 3, 16, 8, 3, 0, 8, 4, 0 >>, << 3, 0, 8, 4, 0, 4, 0 >>,
                   << 3, 0, 8, 3, 0, 8, 4, 0 >>, << 3, 0, 8, 5, 24, 0, 4, 0 >>, << 4, 0 >> } }

\* a at slot 0, b at slot 8, r at slot 16, a comparison code at slot 24, the
\* tags of a, b and r among void, byte, long, float and reference: a is 127
\* or -128 as a byte and 5 otherwise, b is 1, a slot that is void or a
\* reference holding the bytes of a long.  One instruction: an arithmetic,
\* shift or bitwise operation, a NEG, or a CMP whose code is <=, 6 or -1;
\* with slot 16 void, the same with a or b as the result slot, and the
\* instructions that read a value:  GOTO b  behind a NOP,  NEW r b,  and, a
\* and b not being floats,  IF a b r
EdgeImages ==
    LET Raw(t, v) == IF t \in { 4, 5 } THEN SlotBytes(t, Fin(0, v, 0))
                     ELSE IF t \in Tags THEN SlotBytes(t, v)
                     ELSE SlotBytes(3, v)
        Into(index) ==
            { << << opc, index, 0, 8 >>, 3 >> : opc \in (6 .. 10) \cup (12 .. 14) \cup (16 .. 18) }
                \cup { << << 11, index, 0 >>, 3 >> }
                \cup { << << 19, index, 24, 0, 8 >>, cc >> : cc \in { 3, 6, -1 } }
        Reads(floats) ==
            { << << 0, 22, 8 >>, 3 >>, << << 3, 16, 8, 0 >>, 3 >> }
                \cup (IF floats THEN { } ELSE { << << 15, 0, 8, 16, 0, 0 >>, 3 >> })
    IN  UNION { { Image(Raw(tt[1], va) \o Raw(tt[2], 1) \o Fill(8, 170) \o SlotBytes(1, pi[2]),
                        TypeArray(32, (0 :> tt[1]) @@ (8 :> tt[2]) @@ (16 :> tt[3]) @@ (24 :> 1)),
                        pi[1]) :
                    va \in IF tt[1] = 1 THEN { 127, -128 } ELSE { 5 },
                    pi \in Into(16) \cup (IF tt[3] = 0 THEN Into(0) \cup Into(8) \cup Reads(4 \in { tt[1], tt[2] })
                                      ELSE { }) } :
                tt \in { 0, 1, 3, 4, 6 } \X { 0, 1, 3, 4, 6 } \X { 0, 1, 3, 4, 6 } }

Images ==
    HeapImages \cup ArithImages \cup ControlImages \cup InvokeImages \cup BadImages \cup TruncatedImages
        \cup OddImages \cup LoadImages \cup StoreImages \cup IntegerImages \cup CmpImages
        \cup NameImages \cup EdgeImages

(***************************************************************************)
(* main                                                                    *)
(***************************************************************************)

NoInstruction ==
    [op |-> -1, at |-> 0, args |-> << >>, next |-> 0, heap |-> { }, printed |-> << >>]

MaxPrior == 2   \* instructions remembered before the last one

\* the history after one more instruction
Remembered == SubSeq(<< last >> \o prior, 1, Min(Len(prior) + 1, MaxPrior))

Init ==
    /\ invocation \in { "noarg", "nofile", "file" }
    /\ buf \in IF invocation = "file" THEN Images ELSE { << >> }
    /\ heap = { }
    /\ prior = << >>
    /\ printed = << >>
    /\ bytecode_file = 0
    /\ memory = [data |-> 0, type |-> 0, size |-> 0]
    /\ run_code = 0
    /\ name_table = << >>
    /\ status = "start"
    /\ exit_code = 0
    /\ last = NoInstruction
    /\ pre = buf

\* the unsigned value of big-endian bytes
RECURSIVE BigEndian(_)
BigEndian(bs) == IF bs = << >> THEN 0 ELSE BigEndian(SubSeq(bs, 1, Len(bs) - 1)) * 256 + bs[Len(bs)]

\* main called without a file name: the usage line and return -1
Usage ==
    /\ status = "start"
    /\ invocation = "noarg"
    /\ status' = "exit"
    /\ exit_code' = -1
    /\ UNCHANGED << buf, bytecode_file, memory, run_code, name_table, last, pre, invocation, heap, prior, printed >>

\* fopen returned NULL: return -2
CannotOpen ==
    /\ status = "start"
    /\ invocation = "nofile"
    /\ status' = "exit"
    /\ exit_code' = -2
    /\ UNCHANGED << buf, bytecode_file, memory, run_code, name_table, last, pre, invocation, heap, prior, printed >>

\* a variant of Load that builds the memory triple before it looks at the magic
LoadThenCheck ==
    /\ status = "start"
    /\ invocation = "file"
    /\ CanRead(buf, 0, 16)
    /\ memory' = [data |-> 16, type |-> 16 + BigEndian(Peek(buf, 8, 8)),
                  size |-> BigEndian(Peek(buf, 8, 8))]
    /\ IF SubSeq(buf, 1, 4) # << 65, 81, 66, 67 >>
       THEN status' = "exit" /\ exit_code' = -3
       ELSE status' = "undefined" /\ UNCHANGED exit_code
    /\ UNCHANGED << buf, bytecode_file, run_code, name_table, last, pre, invocation, heap, prior, printed >>

\* main from the read of the file up to the loop: the magic, the size, the
\* three segments, the name table.  Every read past the end of the buffer is
\* undefined: the magic needs four bytes, the size the bytes 8 .. 15, the
\* diagnostic print eight bytes at the start of the type array.
Load ==
    /\ status = "start"
    /\ invocation = "file"
    /\ IF ~CanRead(buf, 0, 4)
       THEN /\ status' = "undefined"
            /\ UNCHANGED << bytecode_file, memory, run_code, name_table, exit_code >>
       ELSE IF SubSeq(buf, 1, 4) # << 65, 81, 66, 67 >>
       THEN /\ status' = "exit"
            /\ exit_code' = -3
            /\ UNCHANGED << bytecode_file, memory, run_code, name_table >>
       ELSE IF ~CanRead(buf, 8, 8)
       THEN /\ status' = "undefined"
            /\ UNCHANGED << bytecode_file, memory, run_code, name_table, exit_code >>
       ELSE LET memory_size == BigEndian(Peek(buf, 8, 8))
            IN  IF ~CanRead(buf, 16 + memory_size, 8)
                THEN /\ status' = "undefined"
                     /\ UNCHANGED << bytecode_file, memory, run_code, name_table, exit_code >>
                ELSE /\ memory' = [data |-> 16, type |-> 16 + memory_size, size |-> memory_size]
                     /\ bytecode_file' = 16 + memory_size + (memory_size \div 2)
                     /\ run_code' = 16 + memory_size + (memory_size \div 2)
                     /\ name_table' = InitializeNameTable
                     /\ status' = "run"
                     /\ UNCHANGED exit_code
    /\ UNCHANGED << buf, last, pre, invocation, heap, prior, printed >>

\* the loop's condition fails: main prints, frees and returns 0
Finish ==
    /\ status = "run"
    /\ bytecode_file >= bytecode_end
    /\ status' = "exit"
    /\ exit_code' = 0
    /\ UNCHANGED << buf, bytecode_file, memory, run_code, name_table, last, pre, invocation, heap, prior, printed >>

\* the pointer has left the buffer downwards: the fetch reads outside it
FetchOutside ==
    /\ status = "run"
    /\ bytecode_file < 0
    /\ status' = "undefined"
    /\ UNCHANGED << buf, bytecode_file, memory, run_code, name_table, exit_code, last, pre,
                    invocation, heap, prior, printed >>

\* the switch selects the case of opcode opc
Fetch(opc) ==
    /\ status = "run"
    /\ bytecode_file >= 0
    /\ bytecode_file < bytecode_end
    /\ buf[bytecode_file + 1] = opc

NoOperands(ptr) == [ub |-> FALSE, ptr |-> ptr, args |-> << >>]

\* the rest of a case: d is what the decoder returned, res the buffer the
\* handler leaves, next the value bytecode_file ends with
Case(opc, d, res, next) ==
    /\ last' = [op |-> opc, at |-> bytecode_file, args |-> d.args, next |-> d.ptr, heap |-> heap,
                printed |-> printed]
    /\ prior' = Remembered
    /\ pre' = buf
    /\ IF d.ub
       THEN status' = "undefined" /\ UNCHANGED << buf, bytecode_file >>
       ELSE IF res.ub
       THEN status' = "undefined" /\ UNCHANGED << buf, bytecode_file >>
       ELSE buf' = res.v /\ bytecode_file' = next /\ UNCHANGED status
    /\ UNCHANGED << memory, run_code, name_table, exit_code, invocation, heap, printed >>

\* a variant of case 0x00 that leaves bytecode_file where it was
ExecNOPInPlace ==
    /\ Fetch(0)
    /\ Case(0, NoOperands(bytecode_file), Ok(buf), bytecode_file)

ExecNOP ==
    /\ Fetch(0)
    /\ Case(0, NoOperands(bytecode_file + 1), Ok(buf), bytecode_file + 1)

ExecPTR ==
    /\ Fetch(5)
    /\ LET d == Get2Parament(buf, bytecode_file + 1)
       IN  Case(5, d, PTR(buf, d.args[1], d.args[2]), d.ptr)

ExecADD ==
    /\ Fetch(6)
    /\ LET d == Get3Parament(buf, bytecode_file + 1)
       IN  Case(6, d, ADD(buf, d.args[1], d.args[2], d.args[3]), d.ptr)

ExecSUB ==
    /\ Fetch(7)
    /\ LET d == Get3Parament(buf, bytecode_file + 1)
       IN  Case(7, d, SUB(buf, d.args[1], d.args[2], d.args[3]), d.ptr)

ExecMUL ==
    /\ Fetch(8)
    /\ LET d == Get3Parament(buf, bytecode_file + 1)
       IN  Case(8, d, MUL(buf, d.args[1], d.args[2], d.args[3]), d.ptr)

\* the divide instruction traps: the signal ends the process inside the handler
Killed(opc, d) ==
    /\ last' = [op |-> opc, at |-> bytecode_file, args |-> d.args, next |-> d.ptr, heap |-> heap,
                printed |-> printed]
    /\ prior' = Remembered
    /\ pre' = buf
    /\ status' = "killed"
    /\ UNCHANGED << buf, bytecode_file, memory, run_code, name_table, exit_code, invocation, heap, printed >>

\* a variant of case 0x09 that divides before it looks at the result's tag
ExecDIVEager ==
    /\ Fetch(9)
    /\ LET d == Get3Parament(buf, bytecode_file + 1)
       IN  IF ~d.ub /\ GetLongData(buf, d.args[3]) = Ok(0)
           THEN Killed(9, d)
           ELSE Case(9, d, DIV(buf, d.args[1], d.args[2], d.args[3]), d.ptr)

\* case 0x09.  An integer division by zero is undefined: the divide
\* instruction traps, or it leaves 0 or -1, which is then stored.
ExecDIV ==
    /\ Fetch(9)
    /\ LET d == Get3Parament(buf, bytecode_file + 1)
       IN  IF ~d.ub /\ ZeroDivides("/", buf, d.args[1], d.args[2], d.args[3])
           THEN \/ Killed(9, d)
                \/ \E op \in { "zero", "ones" } :
                      Case(9, d, BinaryArith(op, buf, d.args[1], d.args[2], d.args[3]), d.ptr)
           ELSE Case(9, d, DIV(buf, d.args[1], d.args[2], d.args[3]), d.ptr)

\* case 0x0A.  The remainder by zero is undefined in the same way: a trap, or
\* the dividend.
ExecREM ==
    /\ Fetch(10)
    /\ LET d == Get3Parament(buf, bytecode_file + 1)
       IN  IF ~d.ub /\ ZeroDivides("%", buf, d.args[1], d.args[2], d.args[3])
           THEN \/ Killed(10, d)
                \/ Case(10, d, BinaryInt("first", buf, d.args[1], d.args[2], d.args[3]), d.ptr)
           ELSE Case(10, d, REM(buf, d.args[1], d.args[2], d.args[3]), d.ptr)

\* a variant of case 0x0C that shifts to the right
ExecSHLRight ==
    /\ Fetch(12)
    /\ LET d == Get3Parament(buf, bytecode_file + 1)
       IN  Case(12, d, SHR(buf, d.args[1], d.args[2], d.args[3]), d.ptr)

\* case 0x0C.  A left shift of a negative value, or one whose result the
\* working type does not hold, is undefined, as is a count outside the type
ExecSHL ==
    /\ Fetch(12)
    /\ LET d == Get3Parament(buf, bytecode_file + 1)
       IN  Case(12, d, SHL(buf, d.args[1], d.args[2], d.args[3]), d.ptr)

ExecAND ==
    /\ Fetch(16)
    /\ LET d == Get3Parament(buf, bytecode_file + 1)
       IN  Case(16, d, AND(buf, d.args[1], d.args[2], d.args[3]), d.ptr)

ExecOR ==
    /\ Fetch(17)
    /\ LET d == Get3Parament(buf, bytecode_file + 1)
       IN  Case(17, d, OR(buf, d.args[1], d.args[2], d.args[3]), d.ptr)

ExecXOR ==
    /\ Fetch(18)
    /\ LET d == Get3Parament(buf, bytecode_file + 1)
       IN  Case(18, d, XOR(buf, d.args[1], d.args[2], d.args[3]), d.ptr)

ExecNEG ==
    /\ Fetch(11)
    /\ LET d == Get2Parament(buf, bytecode_file + 1)
       IN  Case(11, d, NEG(buf, d.args[1], d.args[2]), d.ptr)

ExecSHR ==
    /\ Fetch(13)
    /\ LET d == Get3Parament(buf, bytecode_file + 1)
       IN  Case(13, d, SHR(buf, d.args[1], d.args[2], d.args[3]), d.ptr)

\* a variant of case 0x13 that stores the difference of the first operand
\* and itself, a zero, when the code is none of the six
ExecCMPDefaultStores ==
    /\ Fetch(19)
    /\ LET d == Get4Parament(buf, bytecode_file + 1)
           c == GetByteData(buf, d.args[2])
       IN  Case(19, d,
                IF ~d.ub /\ ~c.ub /\ c.v \notin 0 .. 5
                THEN SUB(buf, d.args[1], d.args[3], d.args[3])
                ELSE CMP(buf, d.args[1], d.args[2], d.args[3], d.args[4]),
                d.ptr)

ExecSAR ==
    /\ Fetch(14)
    /\ LET d == Get3Parament(buf, bytecode_file + 1)
       IN  Case(14, d, SAR(buf, d.args[1], d.args[2], d.args[3]), d.ptr)

ExecCMP ==
    /\ Fetch(19)
    /\ LET d == Get4Parament(buf, bytecode_file + 1)
       IN  Case(19, d, CMP(buf, d.args[1], d.args[2], d.args[3], d.args[4]), d.ptr)

\* a variant of case 0x0F that assigns what IF returns to bytecode_file
ExecIFBranching ==
    /\ Fetch(15)
    /\ LET d == Get3Parament(buf, bytecode_file + 1)
           target == IF_(buf, run_code, d.args[1], d.args[2], d.args[3])
       IN  Case(15, d, IF target.ub THEN Undef ELSE Ok(buf), target.v)

\* case 0x0F: IF is called on run_code and what it returns is dropped
ExecIF ==
    /\ Fetch(15)
    /\ LET d == Get3Parament(buf, bytecode_file + 1)
           target == IF_(buf, run_code, d.args[1], d.args[2], d.args[3])
       IN  Case(15, d, IF target.ub THEN Undef ELSE Ok(buf), d.ptr)

\* case 0x14: the decoder makes the call; what the handler printed is on
\* standard output
ExecINVOKE ==
    /\ Fetch(20)
    /\ LET Called(d) ==
               /\ last' = [op |-> 20, at |-> bytecode_file, args |-> d.args, next |-> d.ptr,
                           heap |-> heap, printed |-> printed]
               /\ IF d.ub
                  THEN status' = "undefined" /\ UNCHANGED << buf, bytecode_file, printed >>
                  ELSE /\ buf' = d.mem
                       /\ bytecode_file' = d.ptr
                       /\ printed' = printed \o d.out
                       /\ UNCHANGED status
       IN  Called(GetUnknownCountParamentAndINVOKE(buf, name_table, bytecode_file + 1))
    /\ prior' = Remembered
    /\ pre' = buf
    /\ UNCHANGED << memory, run_code, name_table, exit_code, invocation, heap >>

\* case 0x15: RETURN() returns 0 to the case, which breaks out of the switch
ExecRETURN ==
    /\ Fetch(21)
    /\ Case(21, NoOperands(bytecode_file + 1), Ok(buf), bytecode_file + 1)

\* a variant of case 0x16 that calls GOTO on bytecode_file
ExecGOTOFromHere ==
    /\ Fetch(22)
    /\ LET d == Get1Parament(buf, bytecode_file + 1)
           target == GOTO(buf, d.ptr, d.args[1])
       IN  Case(22, d, IF target.ub THEN Undef ELSE Ok(buf), target.v)

\* case 0x16: bytecode_file becomes what GOTO returns for run_code
ExecGOTO ==
    /\ Fetch(22)
    /\ LET d == Get1Parament(buf, bytecode_file + 1)
           target == GOTO(buf, run_code, d.args[1])
       IN  Case(22, d, IF target.ub THEN Undef ELSE Ok(buf), target.v)

ExecTHROW ==
    /\ Fetch(23)
    /\ Case(23, NoOperands(bytecode_file + 1), Ok(buf), bytecode_file + 1)

\* a variant of case 0xFF that steps over two bytes
ExecWIDETwice ==
    /\ Fetch(255)
    /\ Case(255, NoOperands(bytecode_file + 2), Ok(buf), bytecode_file + 2)

ExecWIDE ==
    /\ Fetch(255)
    /\ Case(255, NoOperands(bytecode_file + 1), Ok(buf), bytecode_file + 1)

\* the rest of a case whose handler may change the heap as well
CaseHeap(opc, d, res, next) ==
    /\ last' = [op |-> opc, at |-> bytecode_file, args |-> d.args, next |-> d.ptr, heap |-> heap,
                printed |-> printed]
    /\ prior' = Remembered
    /\ pre' = buf
    /\ IF d.ub
       THEN status' = "undefined" /\ UNCHANGED << buf, bytecode_file, heap >>
       ELSE IF res.ub
       THEN status' = "undefined" /\ UNCHANGED << buf, bytecode_file, heap >>
       ELSE buf' = res.v /\ heap' = res.hp /\ bytecode_file' = next /\ UNCHANGED status
    /\ UNCHANGED << memory, run_code, name_table, exit_code, invocation, printed >>

ExecLOAD ==
    /\ Fetch(1)
    /\ LET d == Get2Parament(buf, bytecode_file + 1)
       IN  Case(1, d, LOAD(buf, d.args[1], d.args[2]), d.ptr)

ExecSTORE ==
    /\ Fetch(2)
    /\ LET d == Get2Parament(buf, bytecode_file + 1)
       IN  CaseHeap(2, d, STORE(buf, heap, d.args[1], d.args[2]), d.ptr)

\* case 0x03, for each pointer malloc may return
ExecNEW ==
    /\ Fetch(3)
    /\ LET d == Get2Parament(buf, bytecode_file + 1)
       IN  IF d.ub THEN CaseHeap(3, d, Undef, d.ptr)
           ELSE \E data \in Mallocs(heap, GetLongData(buf, d.args[2]).v) :
                    CaseHeap(3, d, NEW_(buf, heap, d.args[1], d.args[2], data), d.ptr)

ExecFREE ==
    /\ Fetch(4)
    /\ LET d == Get1Parament(buf, bytecode_file + 1)
       IN  CaseHeap(4, d, FREE(buf, heap, d.args[1]), d.ptr)

\* the opcodes that have a case of their own
Opcodes == (0 .. 23) \cup { 255 }

\* a variant of the default case that steps over the byte
ExecDefaultSkip ==
    /\ status = "run"
    /\ bytecode_file >= 0
    /\ bytecode_file < bytecode_end
    /\ buf[bytecode_file + 1] \notin Opcodes
    /\ Case(buf[bytecode_file + 1], NoOperands(bytecode_file + 1), Ok(buf), bytecode_file + 1)

\* default: break, with bytecode_file where it was
ExecDefault ==
    /\ status = "run"
    /\ bytecode_file >= 0
    /\ bytecode_file < bytecode_end
    /\ buf[bytecode_file + 1] \notin Opcodes
    /\ Case(buf[bytecode_file + 1], NoOperands(bytecode_file), Ok(buf), bytecode_file)

Next ==
    \/ Usage
    \/ CannotOpen
    \/ Load
    \/ Finish
    \/ FetchOutside
    \/ ExecNOP
    \/ ExecLOAD
    \/ ExecSTORE
    \/ ExecNEW
    \/ ExecFREE
    \/ ExecPTR
    \/ ExecADD
    \/ ExecSUB
    \/ ExecMUL
    \/ ExecDIV
    \/ ExecREM
    \/ ExecNEG
    \/ ExecSHL
    \/ ExecSHR
    \/ ExecSAR
    \/ ExecIF
    \/ ExecAND
    \/ ExecOR
    \/ ExecXOR
    \/ ExecCMP
    \/ ExecINVOKE
    \/ ExecRETURN
    \/ ExecGOTO
    \/ ExecTHROW
    \/ ExecWIDE
    \/ ExecDefault

Spec == Init /\ [][Next]_vars

\* main is one sequential process that keeps running: a NOP, IF, RETURN,
\* THROW or WIDE under the program counter is executed and a loop whose
\* condition fails is left
FairSpec ==
    /\ Spec
    /\ WF_vars(ExecNOP)
    /\ WF_vars(Finish)
    /\ WF_vars(ExecIF)
    /\ WF_vars(ExecRETURN)
    /\ WF_vars(ExecTHROW)
    /\ WF_vars(ExecWIDE)

(***************************************************************************)
(* The decoder on its own: operand streams and the calls main makes         *)
(***************************************************************************)

MaxCount == 2   \* bytes of 255 in front of an operand's terminal byte: 0 .. MaxCount

\* the encoding the decoder is written for: v \div 255 bytes of 255, then the rest
Encode(v) == Fill(v \div 255, 255) \o << v % 255 >>

RECURSIVE EncodeAll(_)
EncodeAll(vs) == IF vs = << >> THEN << >> ELSE Encode(Head(vs)) \o EncodeAll(Tail(vs))

Values == { 255 * k1 + t : k1 \in 0 .. MaxCount, t \in { 0, 254 } }

Streams == { EncodeAll(vs) : vs \in UNION { [1 .. k1 -> Values] : k1 \in 1 .. 4 } }

DecInit ==
    /\ invocation = "file"
    /\ buf \in Streams
    /\ heap = { }
    /\ prior = << >>
    /\ printed = << >>
    /\ bytecode_file = 0
    /\ memory = [data |-> 0, type |-> 0, size |-> 0]
    /\ run_code = 0
    /\ name_table = << >>
    /\ status = "decode"
    /\ exit_code = 0
    /\ last = NoInstruction
    /\ pre = buf

\* bytecode_file = GetNParament(bytecode_file, ...): op records N
Decoded(k, d) ==
    /\ last' = [op |-> k, at |-> bytecode_file, args |-> d.args, next |-> d.ptr, heap |-> heap,
                printed |-> printed]
    /\ prior' = Remembered
    /\ pre' = buf
    /\ IF d.ub
       THEN status' = "undefined" /\ UNCHANGED bytecode_file
       ELSE bytecode_file' = d.ptr /\ UNCHANGED status
    /\ UNCHANGED << buf, memory, run_code, name_table, exit_code, invocation, heap, printed >>

Decode1 == status = "decode" /\ Decoded(1, Get1Parament(buf, bytecode_file))
Decode2 == status = "decode" /\ Decoded(2, Get2Parament(buf, bytecode_file))
Decode3 == status = "decode" /\ Decoded(3, Get3Parament(buf, bytecode_file))
Decode4 == status = "decode" /\ Decoded(4, Get4Parament(buf, bytecode_file))

DecNext ==
    \/ Decode1
    \/ Decode2
    \/ Decode3
    \/ Decode4

DecSpec == DecInit /\ [][DecNext]_vars

(***************************************************************************)
(* The typed readers and writers run on one slot                           *)
(***************************************************************************)

\* a memory of two slots, the first tagged t and holding a value of that
\* type: small and large integers, among them the neighbours of 2^24;
\* floating values with zeros, infinities, a NaN and the least denormal
ConvInit ==
    /\ invocation = "file"
    /\ \E t \in Tags :
          \E v \in CASE t = 1 -> { 0, 3, -7, 100, 127, -128 }
                     [] t \in { 2, 3 } -> { 0, 3, -7, 16777215, 16777216, 16777217, -16777217 }
                     [] OTHER -> { Fin(0, 3, 0), Fin(1, 7, 0), Fin(0, 5, -1), Fin(0, 0, 0),
                                   Fin(1, 0, 0), Inf(0), Inf(1), NaN(0), Fin(0, 1, (IF t = 4 THEN Binary32 ELSE Binary64).lo) } :
             buf = SlotBytes(t, v) \o Fill(8, 170) \o TypeArray(16, (0 :> t))
    /\ heap = { }
    /\ prior = << >>
    /\ printed = << >>
    /\ bytecode_file = 0
    /\ memory = [data |-> 0, type |-> 16, size |-> 16]
    /\ run_code = 0
    /\ name_table = << >>
    /\ status = "convert"
    /\ exit_code = 0
    /\ last = NoInstruction
    /\ pre = buf

\* SetKData(0, GetKData(0)) for one of the five kinds K; op records K
ReadWriteBack ==
    /\ status = "convert"
    /\ last.op = -1
    /\ \E k \in Tags :
          LET Written(r) ==
                  /\ last' = [NoInstruction EXCEPT !.op = k]
                  /\ pre' = buf
                  /\ IF r.ub
                     THEN status' = "undefined" /\ UNCHANGED buf
                     ELSE buf' = r.v /\ UNCHANGED status
          IN  Written(CASE k = 1 -> SetByteData(buf, 0, GetByteData(buf, 0))
                        [] k = 2 -> SetIntData(buf, 0, GetIntData(buf, 0))
                        [] k = 3 -> SetLongData(buf, 0, GetLongData(buf, 0))
                        [] k = 4 -> SetFloatData(buf, 0, GetFloatData(buf, 0))
                        [] k = 5 -> SetDoubleData(buf, 0, GetDoubleData(buf, 0)))
    /\ UNCHANGED << bytecode_file, memory, run_code, name_table, exit_code, invocation, heap,
                    prior, printed >>

ConvSpec == ConvInit /\ [][ReadWriteBack]_vars

(***************************************************************************)
(* Properties                                                              *)
(***************************************************************************)

\* the tag, the stored value and the width of a slot, read without the getters
WidthOf(t) == CASE t = 1 -> 1 [] t = 2 -> 4 [] t = 3 -> 8 [] t = 4 -> 4 [] t = 5 -> 8
FormatOf(t) == IF t = 4 THEN Binary32 ELSE Binary64
StoredValue(b, index) ==
    LET t == GetType(b, index)
    IN  IF t <= 3 THEN BytesInt(Peek(b, memory.data + index, WidthOf(t)))
        ELSE BytesF(Peek(b, memory.data + index, WidthOf(t)), FormatOf(t))

\* the stored value converted to the working type wt
InWorkingType(b, index, wt) ==
    LET t == GetType(b, index)
        v == StoredValue(b, index)
    IN  IF wt <= 3 THEN v
        ELSE IF t <= 3 THEN IntToF(v, FormatOf(wt))
        ELSE FToF(v, FormatOf(wt))

\* opc applied in the working type wt
InTypeResult(opc, wt, v1, v2) ==
    IF wt <= 3
    THEN CASE opc = 6 -> v1 + v2
           [] opc = 7 -> v1 - v2
           [] opc = 8 -> v1 * v2
           [] opc = 9 -> IF (v1 < 0) # (v2 < 0) THEN -(Abs(v1) \div Abs(v2)) ELSE Abs(v1) \div Abs(v2)
    ELSE CASE opc = 6 -> FAdd(v1, v2, FormatOf(wt))
           [] opc = 7 -> FSub(v1, v2, FormatOf(wt))
           [] opc = 8 -> FMul(v1, v2, FormatOf(wt))
           [] opc = 9 -> FDiv(v1, v2, FormatOf(wt))

\* a value of working type wt as the bytes of a slot tagged tr
AsSlotBytes(v, wt, tr) ==
    IF tr <= 3
    THEN LET iv == IF wt <= 3 THEN v ELSE FToInt(v, 8 * WidthOf(tr)).v
         IN  IntBytes(IF tr = 1 THEN ToInt8(iv) ELSE iv, WidthOf(tr))
    ELSE FBytes(IF wt <= 3 THEN IntToF(v, FormatOf(tr)) ELSE FToF(v, FormatOf(tr)),
                FormatOf(tr), WidthOf(tr))

\* what  opc r a b  should leave in the buffer b
Promoted(opc, b, args) ==
    LET tr == GetType(b, args[1])
        wt == Max(tr, Max(GetType(b, args[2]), GetType(b, args[3])))
        v == InTypeResult(opc, wt, InWorkingType(b, args[2], wt), InWorkingType(b, args[3], wt))
    IN  Poke(b, memory.data + args[1], AsSlotBytes(v, wt, tr))

ArithmeticDone ==
    /\ status = "run"
    /\ last.op \in 6 .. 9
    /\ \A k1 \in 1 .. 3 : GetType(pre, last.args[k1]) \in Tags
    /\ ~(last.op = 9 /\ ZeroDivides("/", pre, last.args[1], last.args[2], last.args[3]))

\* C1: after ADD, SUB, MUL or DIV on slots tagged byte, int, long, float or
\* double, the buffer is the one before with r's bytes replaced by the
\* result computed in the highest-ranked of the three tags and converted to
\* r's type; int 3 + int 4 gives int 7, and double 2.5 + int 1 into an int gives 3
C1_ArithmeticPromotes ==
    /\ ArithmeticDone => buf = Promoted(last.op, pre, last.args)
    /\ (ArithmeticDone /\ pre = ArithImage(2, 3, 2, 4, 2, 6))
           => Peek(buf, 32, 4) = IntBytes(7, 4)
    /\ (ArithmeticDone /\ pre = ArithImage(5, Fin(0, 5, -1), 2, 1, 2, 6))
           => Peek(buf, 32, 4) = IntBytes(3, 4)

\* double 2.5 + int 1 has been stored into an int slot
C1_Witness ==
    /\ ArithmeticDone
    /\ pre = ArithImage(5, Fin(0, 5, -1), 2, 1, 2, 6)
    /\ Peek(buf, 32, 4) = IntBytes(3, 4)

\* the offset an IF or GOTO names: the long at the slot, before the instruction
LongAt(index) == GetLongData(pre, index).v

\* C2: after IF cond, true_off, false_off the program counter is the one after
\* the operands plus long(true_off) when the byte at cond is not zero, plus
\* long(false_off) when it is
C2_IfBranches ==
    (status = "run" /\ last.op = 15)
        => bytecode_file = last.next
               + (IF GetByteData(pre, last.args[1]).v # 0 THEN LongAt(last.args[2])
                  ELSE LongAt(last.args[3]))

C4_ReturnHalts ==
    [][(status = "run" /\ last.op = 21) => UNCHANGED << last, buf >>]_vars

\* the code segment holds nothing but NOP
NopOnly ==
    /\ status = "run"
    /\ run_code < bytecode_end
    /\ \A k1 \in run_code + 1 .. bytecode_end : buf[k1] = 0

\* C5: every instruction is fetched below the end, the machine halts with 0
\* only at or after the end, it does halt once there, and a code segment of
\* NOPs halts after finitely many steps with the buffer never changed
C5_LoopHaltsAtEnd ==
    /\ [](/\ (status \in { "run", "exit" } /\ last.op # -1) => (last.at >= 0 /\ last.at < Len(pre))
          /\ (status = "exit" /\ exit_code = 0) => bytecode_file >= bytecode_end)
    /\ [][NopOnly => buf' = buf]_vars
    /\ (status = "run" /\ bytecode_file >= bytecode_end) ~> (status = "exit" /\ exit_code = 0)
    /\ NopOnly ~> (status = "exit" /\ exit_code = 0)

\* a program of NOPs has run to its end and halted
C5_Witness ==
    /\ status = "exit"
    /\ exit_code = 0
    /\ last.op = 0
    /\ run_code < bytecode_end
    /\ \A k1 \in run_code + 1 .. bytecode_end : buf[k1] = 0

\* the byte about to be fetched has no case
AtUnknown ==
    /\ status = "run"
    /\ bytecode_file >= 0
    /\ bytecode_file < bytecode_end
    /\ buf[bytecode_file + 1] \notin Opcodes

\* C6: fetching a byte that is no opcode ends the run abnormally, with no
\* further instruction executed
C6_UnknownOpcodeFatal ==
    [][AtUnknown => (status' = "exit" /\ exit_code' # 0 /\ buf' = buf)]_vars

\* C7: with a byte that is no opcode under the program counter, every step
\* leaves the program counter, the buffer and the running state as they are,
\* so the same byte is fetched again and the machine never halts
C7_DefaultSpins ==
    [][AtUnknown => (AtUnknown' /\ UNCHANGED << bytecode_file, buf, status >>)]_vars

\* the default case has been taken and the byte is still under the program counter
C7_Witness ==
    /\ AtUnknown
    /\ last.op = buf[bytecode_file + 1]
    /\ last.at = bytecode_file

\* the number of bytes equal to 255 from offset off on
RECURSIVE Lead255(_, _)
Lead255(b, off) ==
    IF CanRead(b, off, 1) /\ b[off + 1] = 255 THEN 1 + Lead255(b, off + 1) ELSE 0

Examples ==
    { << 0, << 0 >> >>, << 254, << 254 >> >>, << 255, << 255, 0 >> >>,
      << 509, << 255, 254 >> >>, << 510, << 255, 255, 0 >> >> }

\* C8: k bytes of 255 and a byte t < 255 decode to 255 k + t with the pointer
\* just past t; an encoded value decodes to itself from floor(v / 255) + 1
\* bytes; 0, 254, 255, 509, 510 are 00, FE, FF 00, FF FE, FF FF 00
C8_Uleb255 ==
    /\ (status = "decode" /\ last.op = 1)
           => LET k == Lead255(pre, last.at)
              IN  /\ last.args = << 255 * k + pre[last.at + k + 1] >>
                  /\ bytecode_file = last.at + k + 1
                  /\ \A v \in Values :
                        (/\ CanRead(pre, last.at, Len(Encode(v)))
                         /\ Peek(pre, last.at, Len(Encode(v))) = Encode(v))
                            => /\ last.args = << v >>
                               /\ bytecode_file - last.at = (v \div 255) + 1
    /\ \A e \in Examples :
          /\ Encode(e[1]) = e[2]
          /\ Get1Parament(e[2], 0) = [ub |-> FALSE, ptr |-> Len(e[2]), args |-> << e[1] >>]

\* 510, encoded FF FF 00, has been decoded by a single-operand decode
C8_Witness ==
    /\ status = "decode"
    /\ last.op = 1
    /\ last.args = << 510 >>
    /\ bytecode_file = last.at + 3

\* k single-operand decodes in a row
RECURSIVE Successive(_, _, _)
Successive(b, ptr, k) ==
    IF k <= 0 THEN [ptr |-> ptr, args |-> << >>]
    ELSE LET d == Get1Parament(b, ptr)
             rest == Successive(b, d.ptr, k - 1)
         IN  [ptr |-> rest.ptr, args |-> d.args \o rest.args]

\* C9: the k-operand decoder, k in 1 .. 4, returns the values and the pointer
\* of k single-operand decodes in a row, and the values encode to the bytes
\* it has consumed
C9_DecodersAgree ==
    (status = "decode" /\ last.op \in 1 .. 4)
        => LET s == Successive(pre, last.at, last.op)
           IN  /\ last.args = s.args
               /\ bytecode_file = s.ptr
               /\ EncodeAll(last.args) = SubSeq(pre, last.at + 1, bytecode_file)

\* the four-operand decoder has decoded the encoding of (510, 254, 255, 0)
C9_Witness ==
    /\ status = "decode"
    /\ last.op = 4
    /\ last.args = << 510, 254, 255, 0 >>
    /\ pre = EncodeAll(<< 510, 254, 255, 0 >>)
    /\ bytecode_file = Len(pre)

\* C10: INVOKE decodes three operands and then n more, n being the long at
\* arg_count_slot before the handler runs, and the program counter ends just
\* past operand 3 + n, whatever the handler stores there
C10_InvokeOperands ==
    (status = "run" /\ last.op = 20)
        => LET n == LongAt(last.args[3])
               s == Successive(pre, last.at + 1, 3 + n)
           IN  /\ Len(last.args) = 3 + n
               /\ last.args = s.args
               /\ bytecode_file = s.ptr

\* the handler has stored over the argument count
C10_Witness ==
    /\ status = "run"
    /\ last.op = 20
    /\ last.args[2] = last.args[3]
    /\ GetLongData(buf, last.args[3]).v # LongAt(last.args[3])

\* ---- C11 ----
Magic == << 65, 81, 66, 67 >>

\* the file has four bytes to compare and they are not the magic
WrongMagic == invocation = "file" /\ Len(buf) >= 4 /\ SubSeq(buf, 1, 4) # Magic

\* nothing of the machine exists: no memory triple, no name table, no
\* instruction executed
NothingBuilt ==
    /\ memory = [data |-> 0, type |-> 0, size |-> 0]
    /\ name_table = << >>
    /\ last = NoInstruction
    /\ pre = buf
    /\ heap = { }

\* C11: once main has acted, a file whose first four bytes are not 41 51 42 43
\* has made it return -3 with no memory triple, no name table and no
\* instruction executed; a missing argument has made it return -1 and a file
\* that cannot be opened -2, again with nothing built.
C11_BadMagicRejected ==
    status # "start" =>
        /\ WrongMagic => (status = "exit" /\ exit_code = -3 /\ NothingBuilt)
        /\ invocation = "noarg" => (status = "exit" /\ exit_code = -1 /\ NothingBuilt)
        /\ invocation = "nofile" => (status = "exit" /\ exit_code = -2 /\ NothingBuilt)

\* a file carrying a program behind a wrong magic has been rejected
C11_Witness ==
    /\ WrongMagic
    /\ Len(buf) > 16
    /\ \E k1 \in 17 .. Len(buf) : buf[k1] # 0
    /\ status = "exit"
    /\ exit_code = -3

\* ---- C12 ----
\* the big-endian unsigned value of the header's bytes 8 .. 15
HeaderSize == BigEndian(Peek(buf, 8, 8))

\* C12: after the load the data segment starts at offset 16, the type array
\* right behind its memory_size bytes, and the code behind the
\* ceil(memory_size / 2) bytes of the type array, memory_size being the
\* big-endian value of bytes 8 .. 15, odd or even.
C12_SegmentsAfterHeader ==
    (status = "run" /\ last = NoInstruction) =>
        /\ memory.size = HeaderSize
        /\ memory.data = 16
        /\ memory.type = 16 + HeaderSize
        /\ run_code = 16 + HeaderSize + ((HeaderSize + 1) \div 2)
        /\ bytecode_file = run_code

\* ---- C13 ----
\* the storage width of a tag as the tag table gives it: void none, byte 1,
\* int 4, long 8, float 4, double 8, every other tag a machine word
TagWidth(t) ==
    CASE t = 0 -> 0
      [] t = 1 -> 1
      [] t = 2 -> 4
      [] t = 3 -> 8
      [] t = 4 -> 4
      [] OTHER -> 8

\* the buffer b with n bytes copied from offset off of the data to offset to
CopyWithin(b, off, to, n) == Poke(b, memory.data + to, Peek(b, memory.data + off, n))

\* C13: LOAD src, dst leaves the buffer it found but for the bytes of slot dst,
\* which are the width(type_of(dst)) bytes that were at data + src, the width
\* being that of the tag table (8 for a double).
C13_LoadCopiesTagWidth ==
    (status = "run" /\ last.op = 1) =>
        buf = CopyWithin(pre, last.args[1], last.args[2], TagWidth(GetType(pre, last.args[2])))

\* ---- C14 ----
\* C14: STORE ptr, src leaves the width(type_of(src)) bytes that were at
\* data + src at the address the machine word at data + ptr held, the width
\* being that of the tag table (8 for a double), and changes nothing else: the
\* buffer and the heap are the ones found with those bytes copied in.
C14_StoreCopiesTagWidth ==
    (status = "run" /\ last.op = 2) =>
        LET target == LoadInt(pre, last.args[1], 8)
            bs == Peek(pre, memory.data + last.args[2], TagWidth(GetType(pre, last.args[2])))
            copied == CopyTo(pre, heap, target.v, target.v + 8 + Len(bs), bs)
        IN  ~target.ub /\ ~copied.ub /\ buf = copied.v /\ heap = copied.hp

\* ---- C15 ----
\* the tags of the slots 0 .. size - 1 as the buffer b holds them
TypeNibbles(b) == [index \in 0 .. memory.size - 1 |-> GetType(b, index)]

\* the w bytes at slot index lie inside the data segment
InData(index, w) == index >= 0 /\ index + w <= memory.size

\* an instruction is in range on the buffer b when every operand slot lies in
\* the data segment with the width of its tag, the machine word PTR and NEW
\* write and STORE reads does too, and so do the bytes STORE copies to
InRange(opc, args, b) ==
    /\ \A k1 \in DOMAIN args : InData(args[k1], TagWidth(GetType(b, args[k1])))
    /\ opc = 5 => InData(args[2], 8)
    /\ opc = 3 => InData(args[1], 8)
    /\ opc = 2 =>
          /\ InData(args[1], 8)
          /\ InData(LoadInt(b, args[1], 8).v - BufAddr - memory.data,
                    TagWidth(GetType(b, args[2])))

ZeroDivisorDone ==
    /\ last.op \in { 9, 10 }
    /\ \A k1 \in 1 .. 3 : GetType(pre, last.args[k1]) \in 1 .. 3
    /\ StoredValue(pre, last.args[3]) = 0

\* C16: a DIV in an integer working type, or a REM, whose divisor is zero ends
\* the machine abnormally: the result slot keeps its bytes and no instruction
\* follows.
C16_ZeroDivisorFatal ==
    ZeroDivisorDone => (status = "killed" /\ buf = pre)

\* ---- C17 ----
\* the last instruction was a SHR or SAR on byte, int or long slots
ShiftDone ==
    /\ status = "run"
    /\ last.op \in { 13, 14 }
    /\ \A k1 \in 1 .. 3 : GetType(pre, last.args[k1]) \in 1 .. 3

\* the arithmetic right shift of the slots a and n of the buffer b, in the
\* highest-ranked of the three tags: the floor of a / 2^n
ShiftedRight(b, args) ==
    LET wt == Max(GetType(b, args[1]), Max(GetType(b, args[2]), GetType(b, args[3])))
    IN  InWorkingType(b, args[2], wt) \div Pow2(InWorkingType(b, args[3], wt))

\* C17: SHR and SAR do the same thing.  After either, on byte, int or long
\* slots, the buffer is the one before with r's bytes replaced by the
\* arithmetic right shift of a by n, converted to r's type, which is also
\* what the other of the two would have left; a negative a gives a negative
\* value, -1 once every bit but the sign is shifted out.
C17_ShiftsRightAlike ==
    ShiftDone =>
        LET tr == GetType(pre, last.args[1])
            wt == Max(tr, Max(GetType(pre, last.args[2]), GetType(pre, last.args[3])))
            v == ShiftedRight(pre, last.args)
        IN  /\ buf = Poke(pre, memory.data + last.args[1], AsSlotBytes(v, wt, tr))
            /\ buf = SHR(pre, last.args[1], last.args[2], last.args[3]).v
            /\ buf = SAR(pre, last.args[1], last.args[2], last.args[3]).v
            /\ StoredValue(pre, last.args[2]) < 0 =>
                  /\ v < 0
                  /\ tr = wt => StoredValue(buf, last.args[1]) = v
                  /\ Pow2(StoredValue(pre, last.args[3])) >= -StoredValue(pre, last.args[2])
                        => v = -1

\* SHR has shifted -7 right by one: -4, and by four: -1
C17_Witness ==
    /\ ShiftDone
    /\ last.op = 13
    /\ StoredValue(pre, last.args[2]) = -7
    /\ \/ StoredValue(pre, last.args[3]) = 1 /\ StoredValue(buf, last.args[1]) = -4
       \/ StoredValue(pre, last.args[3]) = 4 /\ StoredValue(buf, last.args[1]) = -1

\* ---- C18 ----
\* the last instruction was a CMP on slots tagged byte .. double whose code
\* slot held one of the six codes
CmpDone ==
    /\ status = "run"
    /\ last.op = 19
    /\ \A k1 \in { 1, 3, 4 } : GetType(pre, last.args[k1]) \in Tags
    /\ GetType(pre, last.args[2]) = 1
    /\ StoredValue(pre, last.args[2]) \in 0 .. 5

\* v1 stands to v2, two values of the working type wt, in the relation
\* EQ = 0, NE = 1, LT = 2, LE = 3, GT = 4, GE = 5
Related(c, wt, v1, v2) ==
    IF wt <= 3
    THEN CASE c = 0 -> v1 = v2
           [] c = 1 -> v1 # v2
           [] c = 2 -> v1 < v2
           [] c = 3 -> v1 <= v2
           [] c = 4 -> v1 > v2
           [] c = 5 -> v1 >= v2
    ELSE CASE c = 0 -> FEq(v1, v2)
           [] c = 1 -> ~FEq(v1, v2)
           [] c = 2 -> FLess(v1, v2)
           [] c = 3 -> FLess(v1, v2) \/ FEq(v1, v2)
           [] c = 4 -> FLess(v2, v1)
           [] c = 5 -> FLess(v2, v1) \/ FEq(v1, v2)

\* what  CMP r op a b  should leave in the buffer b: 1 or 0 in r's type
Compared(b, args) ==
    LET tr == GetType(b, args[1])
        wt == Max(tr, Max(GetType(b, args[3]), GetType(b, args[4])))
        holds == Related(StoredValue(b, args[2]), wt,
                         InWorkingType(b, args[3], wt), InWorkingType(b, args[4], wt))
    IN  Poke(b, memory.data + args[1], AsSlotBytes(IF holds THEN 1 ELSE 0, 3, tr))

\* C18: after CMP r, op, a, b with one of the six codes at slot op, the buffer
\* is the one before with r's bytes replaced by 1 or 0 in r's type, according
\* to whether a stands to b in the relation, the two compared in the
\* highest-ranked of the three tags: int 5 LT int 9 into a byte gives 1, and
\* double 2.5 EQ int 2 gives 0, the two being compared as doubles.
C18_CmpStoresTruth ==
    /\ CmpDone => buf = Compared(pre, last.args)
    /\ (CmpDone /\ GetType(pre, last.args[1]) <= 3) => StoredValue(buf, last.args[1]) \in { 0, 1 }
    /\ (CmpDone /\ pre = CmpImage(2, 5, 2, 9, 1, 2)) => Peek(buf, 32, 1) = << 1 >>
    /\ (CmpDone /\ pre = CmpImage(5, Fin(0, 5, -1), 2, 2, 2, 0)) => Peek(buf, 32, 4) = IntBytes(0, 4)

\* int 5 LT int 9 has been stored into a byte slot
C18_Witness ==
    /\ CmpDone
    /\ pre = CmpImage(2, 5, 2, 9, 1, 2)
    /\ Peek(buf, 32, 1) = << 1 >>

\* ---- C19 ----
\* the live blocks of a heap: where each starts and how long it is
Blocks(hp) == { [at |-> blk.at, size |-> Len(blk.bytes)] : blk \in hp }

\* the heap the instruction k1 back from the last one found, and the one it left
HeapFound(k1) == prior[k1].heap
HeapLeft(k1) == IF k1 = 1 THEN last.heap ELSE prior[k1 - 1].heap

\* the last instruction was a FREE p, the one k1 before it a NEW p, n that
\* got a block, no NEW or FREE lies between, and slot p still held the
\* block's address when FREE read it
PairDone(k1) ==
    /\ status = "run"
    /\ last.op = 4
    /\ k1 <= Len(prior)
    /\ prior[k1].op = 3
    /\ prior[k1].args[1] = last.args[1]
    /\ \A j \in 1 .. k1 - 1 : prior[j].op \notin { 3, 4 }
    /\ \E blk \in HeapLeft(k1) \ HeapFound(k1) : blk.at = LoadInt(pre, last.args[1], 8).v

\* the last instruction was a NEW that got a block
NewDone == status = "run" /\ last.op = 3 /\ heap # last.heap

\* C19: NEW p, n then FREE p, slot p not changed between, leaves the live
\* blocks as they were before the NEW; and a NEW that got a block has added
\* exactly one, of long(n) bytes, apart from every block live before and from
\* the file, and left its address in slot p.
C19_NewFreeNoLeak ==
    /\ \A k1 \in 1 .. MaxPrior : PairDone(k1) => Blocks(heap) = Blocks(HeapFound(k1))
    /\ NewDone =>
          \E blk \in heap :
              /\ heap = last.heap \cup { blk }
              /\ blk.at \notin { old.at : old \in last.heap }
              /\ \A old \in last.heap :
                    blk.at + Len(blk.bytes) <= old.at \/ old.at + Len(old.bytes) <= blk.at
              /\ blk.at >= BufAddr + Len(buf) \/ blk.at + Len(blk.bytes) <= BufAddr
              /\ Len(blk.bytes) = GetLongData(pre, last.args[2]).v
              /\ Peek(buf, memory.data + last.args[1], 8) = IntBytes(blk.at, 8)

\* a block of 8 bytes was allocated with another one live, written to and
\* freed, or freed at once
C19_Witness ==
    /\ \E k1 \in 1 .. MaxPrior : PairDone(k1) /\ HeapLeft(k1) # HeapFound(k1)
    /\ \/ heap # { } /\ PairDone(1)
       \/ PairDone(2) /\ prior[1].op = 2

\* ---- C20 ----
\* the last instruction was a NEW whose malloc returned the null pointer
NewFailed == last.op = 3 /\ status # "undefined" /\ heap = last.heap

\* C20: a NEW whose allocation fails ends the machine: nothing is written to
\* the destination slot and no instruction follows.
C20_FailedNewFatal ==
    NewFailed => (status \in { "exit", "killed" } /\ exit_code # 0 /\ buf = pre)

\* ---- C21 ----
\* INVOKE has decoded all its operands and made the call
InvokeCalled ==
    /\ last.op = 20
    /\ Len(last.args) >= 3
    /\ ~GetLongData(pre, last.args[3]).ub
    /\ GetLongData(pre, last.args[3]).v >= 0
    /\ Len(last.args) = 3 + GetLongData(pre, last.args[3]).v

\* the name INVOKE handed to GetFunction: the string behind the pointer in
\* the func slot
LookedUp ==
    LET p == GetPtrData(pre, last.args[1])
    IN  IF p.ub THEN Undef ELSE CString(pre, p.v)

\* C21: the lookup of any name is defined, reading only names that were set:
\* it yields the handler of a registered name, and the sentinel for any other
C21_LookupReturnsHandlerOrSentinel ==
    (InvokeCalled /\ ~LookedUp.ub)
        => LET fn == GetFunction(name_table, LookedUp.v)
           IN  /\ ~fn.ub
               /\ LookedUp.v = PrintName => fn.v = "print"

\* ---- C22 ----
Unresolved == InvokeCalled /\ ~LookedUp.ub /\ LookedUp.v # PrintName

\* C22: an INVOKE of a name that is not in the table ends the VM with an
\* error, the data as they were
C22_UnresolvedNameFatal ==
    Unresolved => (status \in { "exit", "killed" } /\ exit_code # 0 /\ buf = pre)

\* ---- C23 ----
\* INVOKE has called print and print has returned
PrintCalled ==
    /\ InvokeCalled
    /\ status # "undefined"
    /\ LookedUp = Ok(PrintName)
    /\ GetType(pre, last.args[2]) \in 1 .. 3

\* C23: an INVOKE of "print" calls the handler once, the argument slots in
\* the order of the instruction and the return slot the second operand: the
\* banner and the string behind the first argument slot are printed once,
\* the length of the string is stored into the return slot as an integer of
\* the slot's width, no other byte changes, and the program counter is just
\* past the last argument
C23_InvokeCallsHandler ==
    PrintCalled
        => LET s == Successive(pre, last.at + 1, 3 + LongAt(last.args[3]))
               fmt == CString(pre, BytesInt(Peek(pre, memory.data + s.args[4], 8))).v
               width == WidthOf(GetType(pre, s.args[2]))
           IN  /\ Len(s.args) >= 4
               /\ printed = last.printed \o << << 80, 82, 73, 78, 84, 10 >>, fmt >>
               /\ buf = Poke(pre, memory.data + s.args[2], IntBytes(Len(fmt), width))
               /\ bytecode_file = s.ptr

\* print has been called with two argument slots that hold different strings
C23_Witness ==
    /\ PrintCalled
    /\ Len(last.args) = 5
    /\ last.args[4] # last.args[5]
    /\ printed = << << 80, 82, 73, 78, 84, 10 >>, PrintName >>

\* ---- C24 ----
\* slot 0 has been read as a kind whose rank is at least that of its tag
ReadAsWider == last.op \in Tags /\ status \in { "convert", "undefined" } /\ last.op >= GetType(pre, 0)

\* the integer v is a value of the floating type of kind k
Representable(v, k) == BitLen(Norm(0, Abs(v), 0).m) <= FormatOf(k).p

DestinationRanks ==
    /\ ArithmeticDone
    /\ last.op \in 6 .. 8
    /\ GetType(pre, last.args[1]) >= GetType(pre, last.args[2])
    /\ GetType(pre, last.args[1]) >= GetType(pre, last.args[3])

\* the buffer the instruction would leave had it worked in the type wt and
\* coerced the result to the destination; nothing when the coercion of a
\* floating result to the integer destination is undefined
ComputedIn(wt) ==
    LET tr == GetType(pre, last.args[1])
        v == InTypeResult(last.op, wt, InWorkingType(pre, last.args[2], wt),
                          InWorkingType(pre, last.args[3], wt))
    IN  IF wt >= 4 /\ tr <= 3 /\ FToInt(v, 8 * WidthOf(tr)).ub THEN Undef
        ELSE Ok(Poke(pre, memory.data + last.args[1], AsSlotBytes(v, wt, tr)))

\* C25 as stated: with the destination ranked at least as both operands,
\* ADD, SUB and MUL store what any working type of at least the destination's
\* rank, coerced to the destination, would store
C25_DistributesOverPromotion ==
    DestinationRanks
        => \A wt \in GetType(pre, last.args[1]) .. 5 : ComputedIn(wt) = Ok(buf)

\* C25: with the destination ranked at least as both operands, ADD, SUB and
\* MUL store what a working type of at least the destination's rank, coerced
\* to the destination, would store, when that working type is an integer
\* type or both operands are floating: long arithmetic truncated to int is
\* int arithmetic
C25_DistributesOverExactPromotion ==
    DestinationRanks
        => \A wt \in GetType(pre, last.args[1]) .. 5 :
              (wt <= 3 \/ (GetType(pre, last.args[2]) >= 4 /\ GetType(pre, last.args[3]) >= 4))
                  => ComputedIn(wt) = Ok(buf)

\* byte 100 * byte 4 has been stored into a byte as -112, as int and long
\* arithmetic truncated to a byte give
C25_Witness ==
    /\ DestinationRanks
    /\ pre = ArithImage(1, 100, 1, 4, 1, 8)
    /\ Peek(buf, 32, 1) = IntBytes(-112, 1)
    /\ ComputedIn(3) = Ok(buf)

\* ---- C26 ----
\* C26: every operand slot of an instruction that has been executed lies in
\* the data segment with the width of its tag, 0 <= i and
\* i + width(type_of(i)) <= size, whatever image was loaded
C26_OperandsInData ==
    (status = "run" /\ last.op >= 0)
        => \A k1 \in DOMAIN last.args :
              InData(last.args[k1], TagWidth(GetType(pre, last.args[k1])))

\* ---- C27 ----
\* one of k operands read from ptr has no terminal byte inside the buffer b
RECURSIVE RunsOff(_, _, _)
RunsOff(b, ptr, k) ==
    IF k <= 0 THEN FALSE
    ELSE LET d == DecodeLoop(b, ptr, 0)
         IN  d.ub \/ RunsOff(b, d.ptr, k - 1)

\* C27: a decoder called on operands that run to the end of the code without
\* a terminal byte, or that are missing, fails with an error and reads no
\* byte at or beyond the end
C27_TruncatedOperandsFail ==
    (last.op \in 1 .. 4 /\ status # "decode" /\ RunsOff(pre, last.at, last.op))
        => (status = "exit" /\ exit_code # 0)

\* ---- C28 ----
\* the file b ends before its header, its data bytes or its type array do,
\* and is not one the test of the magic turns away
TooShort(b) ==
    /\ Len(b) >= 4 => SubSeq(b, 1, 4) = << 65, 81, 66, 67 >>
    /\ \/ Len(b) < 16
       \/ LET size == BigEndian(Peek(b, 8, 8))
          IN  Len(b) < 16 + size + ((size + 1) \div 2)

\* C28: a file too short for the header, the data bytes and the type array
\* is turned away by the load with exit code -2, and no instruction runs
C28_ShortFileRejected ==
    (invocation = "file" /\ status # "start" /\ TooShort(buf))
        => (status = "exit" /\ exit_code = -2 /\ last = NoInstruction)

\* ---- C29 ----
\* an instruction other than IF and GOTO has been executed
Executed == status = "run" /\ last.op \in Opcodes \ { 15, 22 }

\* the operands of the instruction executed are as many as its case decodes
OperandsOfCase ==
    Len(last.args) = CASE last.op \in { 0, 21, 23, 255 } -> 0
                       [] last.op = 4 -> 1
                       [] last.op \in { 1, 2, 3, 5, 11 } -> 2
                       [] last.op = 19 -> 4
                       [] last.op = 20 -> IF Len(last.args) >= 3 THEN 3 + LongAt(last.args[3]) ELSE 3
                       [] OTHER -> 3

\* C29: an instruction other than IF and GOTO leaves the program counter at
\* the byte behind its last operand, one opcode byte and the encoded length
\* of each operand further; NOP, THROW and WIDE have no operand, advance it
\* by one and change no byte of the data or of the type array
C29_PCFollowsOperands ==
    /\ Executed => /\ OperandsOfCase
                   /\ bytecode_file = last.at + 1 + Len(EncodeAll(last.args))
    /\ (Executed /\ last.op \in { 0, 23, 255 })
           => (bytecode_file = last.at + 1 /\ buf = pre)

\* a WIDE has been stepped over after a call of five operands was
C29_Witness ==
    \/ Executed /\ last.op = 255 /\ bytecode_file = last.at + 1 /\ last.at > run_code
    \/ Executed /\ last.op = 20 /\ Len(last.args) = 5 /\ bytecode_file = last.at + 6

\* ---- C30 ----
\* REM, SHL, SHR, SAR, AND, OR or XOR has run on byte, int or long slots,
\* the divisor of a REM not being zero
IntegerDone ==
    /\ status = "run"
    /\ last.op \in { 10, 12, 13, 14, 16, 17, 18 }
    /\ \A k1 \in 1 .. 3 : GetType(pre, last.args[k1]) \in 1 .. 3
    /\ last.op = 10 => StoredValue(pre, last.args[3]) # 0

\* bit k of the two's complement of x, whose magnitude is below 2^31
Bit(x, k) == IF k > 30 THEN (IF x < 0 THEN 1 ELSE 0) ELSE (x \div Pow2(k)) % 2

\* bit k of what opc makes of v1 and v2 in C: the remainder has the sign of
\* the dividend, a shift multiplies by or takes the floor of the division by
\* a power of two, the others work bit by bit
ResultBit(opc, v1, v2, k) ==
    CASE opc = 10 -> Bit(v1 - v2 * InTypeResult(9, 3, v1, v2), k)
      [] opc = 12 -> Bit(v1 * Pow2(v2), k)
      [] opc \in { 13, 14 } -> Bit(v1 \div Pow2(v2), k)
      [] opc = 16 -> Bit(v1, k) * Bit(v2, k)
      [] opc = 17 -> Max(Bit(v1, k), Bit(v2, k))
      [] opc = 18 -> (Bit(v1, k) + Bit(v2, k)) % 2

\* C30: REM, SHL, SHR, SAR, AND, OR and XOR on slots r, a, b tagged byte, int
\* or long leave the buffer as it was but for the bytes of r, which hold the
\* low bits, as many as r's type has, of a % b, a << b, a >> b, a & b, a | b
\* or a ^ b computed on the values of a and b
C30_IntegerOperations ==
    IntegerDone =>
        LET tr == GetType(pre, last.args[1])
            at == memory.data + last.args[1]
        IN  /\ buf = Poke(pre, at, Peek(buf, at, WidthOf(tr)))
            /\ \A k \in 0 .. 8 * WidthOf(tr) - 1 :
                  Bit(StoredValue(buf, last.args[1]), k)
                      = ResultBit(last.op, StoredValue(pre, last.args[2]),
                                  StoredValue(pre, last.args[3]), k)

\* the int 16777217 shifted left by the byte 4 has been stored into a byte: 16
C30_Witness ==
    /\ IntegerDone
    /\ pre = ArithImage(2, 16777217, 1, 4, 1, 12)
    /\ StoredValue(buf, 16) = 16

\* ---- C31 ----
\* the operands the case of the opcode at ptr decodes
OperandsAt(b, ptr) ==
    LET opc == b[ptr + 1]
    IN  CASE opc \in { 0, 21, 23, 255 } -> 0
          [] opc = 4 -> 1
          [] opc \in { 1, 2, 3, 5, 11 } -> 2
          [] opc = 19 -> 4
          [] opc = 20 -> IF RunsOff(b, ptr + 1, 3) THEN 3
                         ELSE LET c == GetLongData(b, Successive(b, ptr + 1, 3).args[3])
                              IN  IF c.ub \/ c.v < 0 THEN 3 ELSE 3 + c.v
          [] OTHER -> 3

\* the code of b from ptr to the end is a row of instructions whose opcodes
\* are in ops, each with all its operands
RECURSIVE Straight(_, _, _)
Straight(b, ptr, ops) ==
    IF ptr >= Len(b) THEN TRUE
    ELSE /\ b[ptr + 1] \in ops
         /\ ~RunsOff(b, ptr + 1, OperandsAt(b, ptr))
         /\ Straight(b, Successive(b, ptr + 1, OperandsAt(b, ptr)).ptr, ops)

\* a recognized opcode other than GOTO is under the program counter
AtRecognized ==
    /\ status = "run"
    /\ bytecode_file >= 0
    /\ bytecode_file < bytecode_end
    /\ buf[bytecode_file + 1] \in Opcodes \ { 22 }

Computing == (6 .. 14) \cup (16 .. 19)

\* one of them is under the program counter
AtComputing ==
    /\ status = "run"
    /\ bytecode_file >= 0
    /\ bytecode_file < bytecode_end
    /\ buf[bytecode_file + 1] \in Computing

\* C32: a step that executes an arithmetic, shift, bitwise or CMP instruction
\* with result slot r leaves every byte of the buffer outside the bytes of r,
\* width(type_of(r)) of them, as it was, and the heap, the name table and
\* the segments too
C32_OnlyResultChanges ==
    [][(AtComputing /\ status' = "run")
          => LET r == Get1Parament(buf, bytecode_file + 1).args[1]
                 w == TagWidth(GetType(buf, r))
             IN  /\ \A k1 \in 1 .. Len(buf) :
                       (k1 <= memory.data + r \/ k1 > memory.data + r + w) => buf'[k1] = buf[k1]
                 /\ Len(buf') = Len(buf)
                 /\ heap' = heap
                 /\ name_table' = name_table
                 /\ memory' = memory]_vars

\* NEG has stored into r, and a CMP into the slot of its first operand
C32_Witness ==
    /\ status = "run"
    /\ buf # pre
    /\ \/ last.op = 11
       \/ last.op = 19 /\ last.args[1] = last.args[3]

\* ---- C33 ----
\* an arithmetic, shift, bitwise or CMP instruction has been called with a
\* result slot whose tag is void or above 5
NoResultType ==
    /\ last.op \in Computing
    /\ Len(last.args) = (CASE last.op = 11 -> 2 [] last.op = 19 -> 4 [] OTHER -> 3)
    /\ GetType(pre, last.args[1]) \in { 0 } \cup (6 .. 15)

\* C33: such an instruction stores nothing, whatever the tags and values of
\* its operands: the machine runs on, to its end if this was the last
\* instruction, with the buffer and the heap it had and the program counter
\* behind the operands
C33_UntypedResultStoresNothing ==
    NoResultType
        => /\ status = "run" \/ (status = "exit" /\ exit_code = 0)
           /\ buf = pre
           /\ heap = last.heap
           /\ bytecode_file = last.next

\* a DIV into a void slot whose divisor is a void slot, and so 0, has run
C33_Witness ==
    /\ NoResultType
    /\ last.op = 9
    /\ GetType(pre, last.args[3]) = 0
    /\ Peek(pre, memory.data + last.args[3], 8) # Zeros(8)
    /\ status = "run"
    /\ bytecode_file = last.next

\* ---- C34 ----
\* REM, SHL, SHR, SAR, AND, OR or XOR has been called with three operands
IntegerCalled ==
    /\ last.op \in { 10, 12, 13, 14, 16, 17, 18 }
    /\ Len(last.args) = 3

\* C34: after one of them has been called with a result slot tagged float or
\* double the bytes of that slot are what they were and the machine has not
\* stopped on an error, whatever the tags of the operands and a zero divisor
\* included; and after one has been called with none of its three slots
\* tagged byte, int or long the data segment is what it was
C34_FloatingResultUntouched ==
    IntegerCalled =>
        LET r == last.args[1]
            tr == GetType(pre, r)
        IN  /\ tr \in { 4, 5 }
                  => /\ Peek(buf, memory.data + r, 8) = Peek(pre, memory.data + r, 8)
                     /\ status = "run" \/ (status = "exit" /\ exit_code = 0)
            /\ (\A k \in 1 .. 3 : GetType(pre, last.args[k]) \notin 1 .. 3)
                  => /\ Peek(buf, memory.data, memory.size) = Peek(pre, memory.data, memory.size)
                     /\ status = "run" \/ (status = "exit" /\ exit_code = 0)

\* a REM into a double slot whose divisor is the long 0 has run, and so has
\* an XOR of two floats into a float
C34_Witness ==
    /\ IntegerCalled
    /\ status = "run"
    /\ bytecode_file = last.next
    /\ \/ /\ last.op = 10
          /\ GetType(pre, last.args[1]) = 5
          /\ GetType(pre, last.args[3]) = 3
          /\ StoredValue(pre, last.args[3]) = 0
       \/ /\ last.op = 18
          /\ \A k \in 1 .. 3 : GetType(pre, last.args[k]) = 4

\* ---- C35 ----
\* a binary operation or a CMP has run whose result slot is one of its two
\* operand slots
Aliased ==
    /\ status = "run"
    /\ \/ /\ last.op \in (6 .. 10) \cup (12 .. 14) \cup (16 .. 18)
          /\ Len(last.args) = 3
          /\ last.args[1] \in { last.args[2], last.args[3] }
       \/ /\ last.op = 19
          /\ Len(last.args) = 4
          /\ last.args[1] \in { last.args[3], last.args[4] }

\* C35: the result such an instruction stores is computed from the values
\* the two operand slots held before it: an arithmetic one leaves what the
\* promotion rule makes of the old values, an integer one the bits of the
\* old values combined, a CMP the truth of the relation between the old
\* values, and ADD r, r, b on slots of one integer type old(r) + old(b)
C35_OperandsReadBeforeStore ==
    /\ (Aliased /\ ArithmeticDone) => buf = Promoted(last.op, pre, last.args)
    /\ (Aliased /\ IntegerDone)
          => \A k \in 0 .. 8 * WidthOf(GetType(pre, last.args[1])) - 1 :
                Bit(StoredValue(buf, last.args[1]), k)
                    = ResultBit(last.op, StoredValue(pre, last.args[2]),
                                StoredValue(pre, last.args[3]), k)
    /\ (Aliased /\ CmpDone) => buf = Compared(pre, last.args)
    /\ (Aliased /\ ArithmeticDone /\ last.op = 6 /\ last.args[1] = last.args[2]
            /\ GetType(pre, last.args[1]) \in 1 .. 3
            /\ GetType(pre, last.args[3]) = GetType(pre, last.args[1]))
          => LET sum == StoredValue(pre, last.args[1]) + StoredValue(pre, last.args[3])
             IN  StoredValue(buf, last.args[1])
                     = (IF GetType(pre, last.args[1]) = 1 THEN ToInt8(sum) ELSE sum)

\* ADD r, r, b has made 6 of the longs 5 and 1
C35_Witness ==
    /\ Aliased
    /\ last.op = 6
    /\ last.args[1] = last.args[2]
    /\ last.args[1] # last.args[3]
    /\ GetType(pre, last.args[1]) = 3
    /\ GetType(pre, last.args[3]) = 3
    /\ StoredValue(pre, last.args[1]) = 5
    /\ StoredValue(pre, last.args[3]) = 1
    /\ StoredValue(buf, last.args[1]) = 6

\* ---- C36 ----
\* the slot's tag is void or above 5
Untyped(b, index) == GetType(b, index) \in { 0 } \cup (6 .. 15)

\* the rank its tag has in the promotion, none for such a slot
Rank(b, index) == IF Untyped(b, index) THEN 0 ELSE GetType(b, index)

\* what the slot contributes in the working type wt: 0 for such a slot
Contributed(b, index, wt) ==
    IF Untyped(b, index) THEN (IF wt <= 3 THEN 0 ELSE IntToF(0, FormatOf(wt)))
    ELSE InWorkingType(b, index, wt)

\* an instruction of the opcodes ops has run to its end, the operands at
\* from .. from + 1 of its arguments: its result slot has one of the tags
\* trs, its operands have tags among trs or none, and one of them has none
\* though the bytes of the slot are not zeros
ReadUntyped(ops, from, trs) ==
    /\ status = "run"
    /\ last.op \in ops
    /\ Len(last.args) = from + 1
    /\ GetType(pre, last.args[1]) \in trs
    /\ \A k \in { from, from + 1 } : Untyped(pre, last.args[k]) \/ GetType(pre, last.args[k]) \in trs
    /\ \E k \in { from, from + 1 } :
          /\ Untyped(pre, last.args[k])
          /\ Peek(pre, memory.data + last.args[k], 8) # Zeros(8)

\* the working type of that instruction and the buffer it should leave when
\* v, of the working type, is what it computes
WorkingType(from) ==
    Max(GetType(pre, last.args[1]), Max(Rank(pre, last.args[from]), Rank(pre, last.args[from + 1])))
Leaves(v, wt) ==
    Poke(pre, memory.data + last.args[1], AsSlotBytes(v, wt, GetType(pre, last.args[1])))

\* the instruction was a DIV or REM of integers whose divisor counts as 0
DividesByNothing ==
    /\ last.op \in { 9, 10 }
    /\ Len(last.args) = 3
    /\ GetType(pre, last.args[1]) \in 1 .. 3
    /\ Rank(pre, last.args[2]) \in 0 .. 3
    /\ Untyped(pre, last.args[3])

\* the offset slot an IF reads: the third operand when the condition is a
\* slot without a type or a byte 0, the second when it is another byte
OffsetRead ==
    IF Untyped(pre, last.args[1]) \/ StoredValue(pre, last.args[1]) = 0 THEN last.args[3]
    ELSE last.args[2]

\* C36: a slot whose tag is void or above 5 counts as 0 wherever its value
\* is read, whatever bytes it holds.  ADD, SUB, MUL and DIV, the integer
\* operations and CMP store what they compute with 0 in its place; NEG of it
\* stores a zero, the negative one in a float; a DIV or REM of integers by it
\* is a division by zero, which stops the machine or leaves what the divide
\* instruction leaves then, 0 or -1 for a quotient and the dividend for a
\* remainder; IF, whose result main drops,
\* reads it as a condition and as an offset without an error; GOTO takes it
\* for the offset 0, NEW for the size 0, and INVOKE for an argument count 0,
\* reading no argument operand
C36_UntypedOperandIsZero ==
    /\ (ReadUntyped(6 .. 9, 2, Tags) /\ ~DividesByNothing)
          => LET wt == WorkingType(2)
             IN  buf = Leaves(InTypeResult(last.op, wt, Contributed(pre, last.args[2], wt),
                                           Contributed(pre, last.args[3], wt)), wt)
    /\ (ReadUntyped({ 10, 12, 13, 14, 16, 17, 18 }, 2, 1 .. 3) /\ ~DividesByNothing)
          => \A k \in 0 .. 8 * WidthOf(GetType(pre, last.args[1])) - 1 :
                Bit(StoredValue(buf, last.args[1]), k)
                    = ResultBit(last.op, Contributed(pre, last.args[2], 3),
                                Contributed(pre, last.args[3], 3), k)
    /\ (ReadUntyped({ 19 }, 3, Tags) /\ StoredValue(pre, last.args[2]) \in 0 .. 5)
          => LET wt == WorkingType(3)
             IN  buf = Leaves(IF Related(StoredValue(pre, last.args[2]), wt,
                                         Contributed(pre, last.args[3], wt),
                                         Contributed(pre, last.args[4], wt)) THEN 1 ELSE 0, 3)
    /\ (status = "run" /\ last.op = 11 /\ Len(last.args) = 2
            /\ GetType(pre, last.args[1]) \in Tags /\ Untyped(pre, last.args[2]))
          => LET wt == GetType(pre, last.args[1])
             IN  buf = Leaves(IF wt <= 3 THEN 0 ELSE FNeg(IntToF(0, FormatOf(wt))), wt)
    /\ (DividesByNothing /\ status # "undefined")
          => \/ status = "killed" /\ buf = pre
             \/ /\ status \in { "run", "exit" }
                /\ last.op = 9
                /\ StoredValue(buf, last.args[1]) \in { 0, -1 }
             \/ /\ status \in { "run", "exit" }
                /\ last.op = 10
                /\ \A k \in 0 .. 8 * WidthOf(GetType(pre, last.args[1])) - 1 :
                      Bit(StoredValue(buf, last.args[1]), k)
                          = Bit(Contributed(pre, last.args[2], 3), k)
    /\ (last.op = 15 /\ Len(last.args) = 3
            /\ (Untyped(pre, last.args[1]) \/ GetType(pre, last.args[1]) = 1)
            /\ Untyped(pre, OffsetRead))
          => /\ status # "undefined"
             /\ buf = pre
             /\ status = "run" => bytecode_file = last.next
    /\ (status = "run" /\ last.op = 22 /\ Untyped(pre, last.args[1])) => bytecode_file = run_code
    /\ (status = "run" /\ last.op = 3 /\ Untyped(pre, last.args[2]))
          => \A blk \in heap \ last.heap : Len(blk.bytes) = 0
    /\ (last.op = 20 /\ Len(last.args) >= 3 /\ Untyped(pre, last.args[3])) => Len(last.args) = 3

\* the long 5 and a reference slot holding the bytes of the long 1 have been
\* added into a long: 5
C36_Witness ==
    /\ ReadUntyped({ 6 }, 2, { 3 })
    /\ GetType(pre, last.args[3]) = 6
    /\ GetType(pre, last.args[2]) = 3
    /\ StoredValue(pre, last.args[2]) = 5
    /\ Peek(pre, memory.data + last.args[3], 8) = IntBytes(1, 8)
    /\ StoredValue(buf, last.args[1]) = 5

\* ---- C37 ----
\* a CMP has been called whose code slot, a byte, holds none of 0 .. 5
NoSuchComparison ==
    /\ last.op = 19
    /\ Len(last.args) = 4
    /\ GetType(pre, last.args[2]) = 1
    /\ StoredValue(pre, last.args[2]) \notin 0 .. 5

\* C37: such a CMP stores nothing: the machine runs on, to its end if this
\* was the last instruction, with the buffer it had, and the program counter
\* stands behind the four operands
C37_UnknownComparisonStoresNothing ==
    NoSuchComparison
        => /\ status = "run" \/ (status = "exit" /\ exit_code = 0)
           /\ buf = pre
           /\ heap = last.heap
           /\ bytecode_file = last.next
           /\ last.next = last.at + 1 + Len(EncodeAll(last.args))

\* the ints 5 and 9 have been compared under the code 6 into a byte slot,
\* which holds what it held
C37_Witness ==
    /\ NoSuchComparison
    /\ pre = CmpImage(2, 5, 2, 9, 1, 6)
    /\ status = "run"
    /\ Peek(buf, 32, 1) = << 170 >>
    /\ bytecode_file = last.at + 5

\* ---- C38 ----
\* the machine word the last instruction, a FREE p, found at slot p
AddressFreed == BytesInt(Peek(pre, memory.data + last.args[1], 8))

\* the last two instructions were FREE p and FREE p, and slot p held an
\* address
FreedTwice ==
    /\ last.op = 4
    /\ Len(last.args) = 1
    /\ AddressFreed # 0
    /\ Len(prior) >= 1
    /\ prior[1].op = 4
    /\ prior[1].args = last.args

\* C38: a FREE p that has returned has taken the block at the address slot p
\* holds, if that is not null, out of the live blocks and has left the
\* buffer, slot p included, as it was; so a second FREE p at once is given
\* the address the first released, which is no live block's any more: a
\* second free of it, at which the behaviour of the machine is undefined
C38_FreeKeepsTheAddress ==
    /\ (status = "run" /\ last.op = 4)
          => /\ buf = pre
             /\ heap = { blk \in last.heap : blk.at # AddressFreed }
             /\ AddressFreed # 0 => \E blk \in last.heap : blk.at = AddressFreed
    /\ FreedTwice
          => /\ \E blk \in prior[1].heap \ last.heap : blk.at = AddressFreed
             /\ \A blk \in last.heap : blk.at # AddressFreed
             /\ status = "undefined"
             /\ buf = pre
             /\ heap = last.heap

\* NEW p, 8 then FREE p and FREE p again: the block is released twice
C38_Witness ==
    /\ FreedTwice
    /\ Len(prior) = 2
    /\ prior[2].op = 3
    /\ prior[2].args[1] = last.args[1]
    /\ \E blk \in prior[1].heap : blk.at = AddressFreed /\ Len(blk.bytes) = 8
    /\ status = "undefined"

\* ---- C39 ----
\* ADD, SUB, MUL or NEG has been called on slots that are all tagged byte
BytesOnly ==
    /\ last.op \in { 6, 7, 8, 11 }
    /\ Len(last.args) = (IF last.op = 11 THEN 2 ELSE 3)
    /\ \A k \in 1 .. Len(last.args) : GetType(pre, last.args[k]) = 1

\* what the operation makes of the bytes v1 and v2 in the integers
Exactly(opc, v1, v2) ==
    CASE opc = 6 -> v1 + v2
      [] opc = 7 -> v1 - v2
      [] opc = 8 -> v1 * v2
      [] opc = 11 -> -v1

\* C39: such an instruction never stops the machine: it leaves the buffer
\* as it was but for the byte of r, which is the signed byte that differs
\* from the exact result by a multiple of 256; 127 + 1 leaves -128 and the
\* NEG of -128 leaves -128
C39_ByteArithmeticWraps ==
    BytesOnly =>
        LET r == last.args[1]
            v1 == StoredValue(pre, last.args[2])
            v2 == StoredValue(pre, last.args[Len(last.args)])
            stored == StoredValue(buf, r)
        IN  /\ status = "run" \/ (status = "exit" /\ exit_code = 0)
            /\ bytecode_file = last.next
            /\ buf = Poke(pre, memory.data + r, Peek(buf, memory.data + r, 1))
            /\ stored \in -128 .. 127
            /\ \E q \in -64 .. 64 : stored = Exactly(last.op, v1, v2) + 256 * q
            /\ (last.op = 6 /\ v1 = 127 /\ v2 = 1) => stored = -128
            /\ (last.op = 11 /\ v1 = -128) => stored = -128

\* 127 + 1 has left -128 in a third slot, or the NEG of -128 has left -128
C39_Witness ==
    /\ BytesOnly
    /\ status = "run"
    /\ StoredValue(buf, last.args[1]) = -128
    /\ \/ /\ last.op = 6
          /\ last.args[1] \notin { last.args[2], last.args[3] }
          /\ StoredValue(pre, last.args[2]) = 127
          /\ StoredValue(pre, last.args[3]) = 1
       \/ /\ last.op = 11
          /\ StoredValue(pre, last.args[2]) = -128

====
